---- MODULE Spec2Model ----
(***************************************************************************)
(* Display Manager core: CRC16-CCITT, frame encoder, byte-fed frame parser, *)
(* command dispatcher with weak default handlers and the application        *)
(* binder that overrides the UI handlers.                                   *)
(*                                                                          *)
(* Bytes are the integers 0..255; 16-bit and 32-bit registers keep their    *)
(* width by reduction modulo 2^16 and 2^32.                                 *)
(***************************************************************************)
EXTENDS Integers, Naturals, Sequences, FiniteSets, TLC

(***************************************************************************)
(* dm_config.h                                                              *)
(***************************************************************************)

\* DM_MAX_PAYLOAD is a build-time knob (dm_config.h:12-14, "#ifndef
\* DM_MAX_PAYLOAD", default 128, overridable from CMake).  The model is
\* checked for a small buffer so that every payload length from 0 up to the
\* full buffer, and the first length beyond it, is explored exhaustively.
DM_MAX_PAYLOAD == 3

DM_PROTOCOL_VERSION == 1

DM_START_BYTE == 170

DM_HEADER_SIZE == 5

DM_CRC_SIZE == 2

DM_MAX_FRAME_SIZE == DM_HEADER_SIZE + DM_MAX_PAYLOAD + DM_CRC_SIZE

DM_MAX_TEXT_LEN == 64

DM_MAX_PAGES == 8

Byte == 0..255

U16 == 2^16

(***************************************************************************)
(* crc16.c                                                                  *)
(***************************************************************************)

\* Bitwise exclusive or of two naturals.
RECURSIVE Xor(_, _)
Xor(a, b) ==
    IF b = 0 THEN a
    ELSE IF a = 0 THEN b
    ELSE ((a + b) % 2) + 2 * Xor(a \div 2, b \div 2)

\* x ^ k for a single bit k (a power of two).
FlipBit(x, k) == IF (x \div k) % 2 = 1 THEN x - k ELSE x + k

\* CRC16_POLY is 0x1021: bits 12, 5 and 0.
CRC16_POLY == 4129

\* x ^ CRC16_POLY, one bit of the polynomial at a time.
XorPoly(x) == FlipBit(FlipBit(FlipBit(x, 4096), 32), 1)

\* One iteration of the loop body of crc16_update.
crc16_shift(crc) ==
    IF crc >= 32768
    THEN XorPoly((crc * 2) % U16)
    ELSE (crc * 2) % U16

\* i iterations of the loop of crc16_update.  crc is a uint16_t; testing the
\* range of each iteration's result makes the checker compute it before the
\* next iteration starts.
RECURSIVE crc16_loop(_, _)
crc16_loop(crc, i) ==
    IF i = 0 THEN crc
    ELSE LET next == crc16_shift(crc)
         IN  IF next \in 0..(U16 - 1) THEN crc16_loop(next, i - 1) ELSE next

\* crc ^= byte << 8 changes the high byte only.
\* Mutant: the byte is XORed into the low half of the accumulator.
crc16_update_lowbyte(crc, byte) ==
    crc16_loop((crc \div 256) * 256 + Xor(crc % 256, byte), 8)

crc16_update(crc, byte) ==
    crc16_loop(Xor(crc \div 256, byte) * 256 + (crc % 256), 8)

\* The loop of crc16_ccitt from data[i] on.  The accumulator is a uint16_t;
\* testing its range makes the checker compute each byte's CRC before it
\* goes on to the next byte.
RECURSIVE crc16_fold(_, _, _)
crc16_fold(crc, data, i) ==
    IF i > Len(data) THEN crc
    ELSE LET next == crc16_update(crc, data[i])
         IN  IF next \in 0..(U16 - 1) THEN crc16_fold(next, data, i + 1) ELSE next

\* Mutant: the accumulator starts from 0.
crc16_ccitt_seed0(data) == crc16_fold(0, data, 1)

crc16_ccitt(data) == crc16_fold(65535, data, 1)

(***************************************************************************)
(* dm_protocol.h: command and event identifiers                             *)
(***************************************************************************)

CMD_PING == 1
CMD_GET_VERSION == 2
CMD_RESET == 3
CMD_ENTER_BOOTLOADER == 4
CMD_SHOW_PAGE == 16
CMD_SET_TEXT == 32
CMD_SET_VALUE == 33
CMD_SET_VISIBLE == 34
CMD_SET_ENABLED == 35

EVT_BUTTON_PRESSED == 128
EVT_SLIDER_CHANGED == 129
EVT_PAGE_CHANGED == 130
EVT_TOUCH_EVENT == 131
EVT_ACK == 240
EVT_NACK == 241

(***************************************************************************)
(* dm_parser.h: parser states and context                                   *)
(***************************************************************************)

PARSE_WAIT_START == 0
PARSE_VERSION == 1
PARSE_COMMAND == 2
PARSE_SEQ_ID == 3
PARSE_LENGTH == 4
PARSE_PAYLOAD == 5
PARSE_CRC_HIGH == 6
PARSE_CRC_LOW == 7

\* dm_frame_t after memset(0).  payload[i] of the source is payload[i + 1] here.
ZeroFrame ==
    [version |-> 0, command |-> 0, seq_id |-> 0, payload_len |-> 0,
     payload |-> [i \in 1..DM_MAX_PAYLOAD |-> 0]]

(***************************************************************************)
(* dm_parser.c                                                              *)
(***************************************************************************)

\* Mutant: a reset leaves the running CRC as it is.
parser_reset_keepcrc(p) ==
    [p EXCEPT !.state = PARSE_WAIT_START,
              !.payload_index = 0,
              !.crc_high = 0]

\* Mutant: a reset leaves the stored high CRC byte as it is.
parser_reset_keephigh(p) ==
    [p EXCEPT !.state = PARSE_WAIT_START,
              !.payload_index = 0,
              !.running_crc = 65535]

parser_reset(p) ==
    [p EXCEPT !.state = PARSE_WAIT_START,
              !.payload_index = 0,
              !.running_crc = 65535,
              !.crc_high = 0]

dm_parser_init ==
    parser_reset([state |-> 0, frame |-> ZeroFrame, payload_index |-> 0,
                  running_crc |-> 0, crc_high |-> 0,
                  frames_ok |-> 0, frames_crc_err |-> 0, frames_len_err |-> 0])

\* The three counters are uint32_t; they wrap at 2^32, which is beyond the
\* integers of the model checker and beyond the frames a checked run sees.

\* Result of one dm_parser_feed call: the context afterwards, whether
\* dm_protocol_dispatch was called on p.frame, and the index of the store into
\* frame.payload made by the call (-1 when it made none).
FeedResult(p, d, w) == [p |-> p, dispatch |-> d, wr |-> w]

\* Mutant: any byte is taken as the start of a frame.
feed_wait_start_any(p, byte) ==
    FeedResult([parser_reset(p) EXCEPT !.state = PARSE_VERSION], FALSE, -1)

\* case PARSE_WAIT_START
feed_wait_start(p, byte) ==
    IF byte = DM_START_BYTE
    THEN FeedResult([parser_reset(p) EXCEPT !.state = PARSE_VERSION], FALSE, -1)
    ELSE FeedResult(p, FALSE, -1)

\* Mutant: a frame of another protocol version is dropped at its version byte.
feed_version_checked(p, byte) ==
    IF byte # DM_PROTOCOL_VERSION
    THEN FeedResult(parser_reset(p), FALSE, -1)
    ELSE FeedResult([p EXCEPT !.frame.version = byte,
                              !.running_crc = crc16_update(p.running_crc, byte),
                              !.state = PARSE_COMMAND], FALSE, -1)

\* case PARSE_VERSION
feed_version(p, byte) ==
    FeedResult([p EXCEPT !.frame.version = byte,
                         !.running_crc = crc16_update(p.running_crc, byte),
                         !.state = PARSE_COMMAND], FALSE, -1)

\* case PARSE_COMMAND
feed_command(p, byte) ==
    FeedResult([p EXCEPT !.frame.command = byte,
                         !.running_crc = crc16_update(p.running_crc, byte),
                         !.state = PARSE_SEQ_ID], FALSE, -1)

\* case PARSE_SEQ_ID
feed_seq_id(p, byte) ==
    FeedResult([p EXCEPT !.frame.seq_id = byte,
                         !.running_crc = crc16_update(p.running_crc, byte),
                         !.state = PARSE_LENGTH], FALSE, -1)

\* Mutant: the length byte is accepted whatever its value.
feed_length_nocheck(p, byte) ==
    FeedResult([p EXCEPT !.frame.payload_len = byte,
                         !.running_crc = crc16_update(p.running_crc, byte),
                         !.payload_index = 0,
                         !.state = IF byte = 0 THEN PARSE_CRC_HIGH
                                   ELSE PARSE_PAYLOAD], FALSE, -1)

\* Mutant: a length overflow is counted but the parser is not reset.
feed_length_noreset(p, byte) ==
    IF byte > DM_MAX_PAYLOAD
    THEN FeedResult([p EXCEPT !.frames_len_err = @ + 1], FALSE, -1)
    ELSE FeedResult([p EXCEPT !.frame.payload_len = byte,
                              !.running_crc = crc16_update(p.running_crc, byte),
                              !.payload_index = 0,
                              !.state = IF byte = 0 THEN PARSE_CRC_HIGH
                                        ELSE PARSE_PAYLOAD], FALSE, -1)

\* Mutant: a length equal to the buffer size is rejected too.
feed_length_offbyone(p, byte) ==
    IF byte >= DM_MAX_PAYLOAD
    THEN FeedResult(parser_reset([p EXCEPT !.frames_len_err = @ + 1]), FALSE, -1)
    ELSE FeedResult([p EXCEPT !.frame.payload_len = byte,
                              !.running_crc = crc16_update(p.running_crc, byte),
                              !.payload_index = 0,
                              !.state = IF byte = 0 THEN PARSE_CRC_HIGH
                                        ELSE PARSE_PAYLOAD], FALSE, -1)

\* Mutant: a length beyond the buffer resets the parser without being counted.
feed_length_uncounted(p, byte) ==
    IF byte > DM_MAX_PAYLOAD
    THEN FeedResult(parser_reset(p), FALSE, -1)
    ELSE FeedResult([p EXCEPT !.frame.payload_len = byte,
                              !.running_crc = crc16_update(p.running_crc, byte),
                              !.payload_index = 0,
                              !.state = IF byte = 0 THEN PARSE_CRC_HIGH
                                        ELSE PARSE_PAYLOAD],
                    FALSE, -1)

\* case PARSE_LENGTH
feed_length(p, byte) ==
    IF byte > DM_MAX_PAYLOAD
    THEN FeedResult(parser_reset([p EXCEPT !.frames_len_err = @ + 1]),
                    FALSE, -1)
    ELSE FeedResult([p EXCEPT !.frame.payload_len = byte,
                              !.running_crc = crc16_update(p.running_crc, byte),
                              !.payload_index = 0,
                              !.state = IF byte = 0 THEN PARSE_CRC_HIGH
                                        ELSE PARSE_PAYLOAD], FALSE, -1)

\* Mutant: the payload state is left one byte late.
feed_payload_late(p, byte) ==
    LET idx == p.payload_index
        q == [p EXCEPT !.frame.payload =
                           IF idx < DM_MAX_PAYLOAD
                           THEN [@ EXCEPT ![idx + 1] = byte] ELSE @,
                       !.payload_index = (idx + 1) % U16,
                       !.running_crc = crc16_update(p.running_crc, byte)]
    IN  FeedResult([q EXCEPT !.state = IF q.payload_index > q.frame.payload_len
                                       THEN PARSE_CRC_HIGH ELSE PARSE_PAYLOAD],
                   FALSE, idx)

\* case PARSE_PAYLOAD.  A store at an index outside frame.payload is reported
\* in wr and leaves the array as it is; what it does to the rest of the
\* context is decided where the result is applied (Clobbered).
feed_payload(p, byte) ==
    LET idx == p.payload_index
        q == [p EXCEPT !.frame.payload =
                           IF idx < DM_MAX_PAYLOAD
                           THEN [@ EXCEPT ![idx + 1] = byte] ELSE @,
                       !.payload_index = (idx + 1) % U16,
                       !.running_crc = crc16_update(p.running_crc, byte)]
    IN  FeedResult([q EXCEPT !.state = IF q.payload_index >= q.frame.payload_len
                                       THEN PARSE_CRC_HIGH ELSE PARSE_PAYLOAD],
                   FALSE, idx)

\* Mutant: the high CRC byte is folded into the running CRC.
feed_crc_high_folded(p, byte) ==
    FeedResult([p EXCEPT !.crc_high = byte,
                         !.running_crc = crc16_update(p.running_crc, byte),
                         !.state = PARSE_CRC_LOW], FALSE, -1)

\* case PARSE_CRC_HIGH
feed_crc_high(p, byte) ==
    FeedResult([p EXCEPT !.crc_high = byte, !.state = PARSE_CRC_LOW], FALSE, -1)

\* Mutant: only the low byte of the received CRC is compared.
feed_crc_low_lowbyte(p, byte) ==
    IF byte = p.running_crc % 256
    THEN FeedResult(parser_reset([p EXCEPT !.frames_ok = @ + 1]), TRUE, -1)
    ELSE FeedResult(parser_reset([p EXCEPT !.frames_crc_err = @ + 1]), FALSE, -1)

\* Mutant: a CRC mismatch is counted but the parser is not reset.
feed_crc_low_noreset(p, byte) ==
    LET received_crc == p.crc_high * 256 + byte
    IN  IF received_crc = p.running_crc
        THEN FeedResult(parser_reset([p EXCEPT !.frames_ok = @ + 1]), TRUE, -1)
        ELSE FeedResult([p EXCEPT !.frames_crc_err = @ + 1], FALSE, -1)

\* Mutant: a frame whose CRC does not match is counted and dispatched all the same.
feed_crc_low_dispatch_anyway(p, byte) ==
    LET received_crc == p.crc_high * 256 + byte
    IN  IF received_crc = p.running_crc
        THEN FeedResult(parser_reset([p EXCEPT !.frames_ok = @ + 1]), TRUE, -1)
        ELSE FeedResult(parser_reset([p EXCEPT !.frames_crc_err = @ + 1]), TRUE, -1)

\* Mutant: after a delivered frame the parser takes the next byte for the
\* version byte of the following frame.
feed_crc_low_expect_next(p, byte) ==
    LET received_crc == p.crc_high * 256 + byte
    IN  IF received_crc = p.running_crc
        THEN FeedResult([parser_reset([p EXCEPT !.frames_ok = @ + 1])
                             EXCEPT !.state = PARSE_VERSION], TRUE, -1)
        ELSE FeedResult(parser_reset([p EXCEPT !.frames_crc_err = @ + 1]),
                        FALSE, -1)

\* case PARSE_CRC_LOW
feed_crc_low(p, byte) ==
    LET received_crc == p.crc_high * 256 + byte
    IN  IF received_crc = p.running_crc
        THEN FeedResult(parser_reset([p EXCEPT !.frames_ok = @ + 1]),
                        TRUE, -1)
        ELSE FeedResult(parser_reset([p EXCEPT !.frames_crc_err = @ + 1]),
                        FALSE, -1)

\* Mutant: the start byte restarts the frame in every state.
dm_parser_feed_resync(p, byte) ==
    IF byte = DM_START_BYTE
    THEN FeedResult([parser_reset(p) EXCEPT !.state = PARSE_VERSION], FALSE, -1)
    ELSE CASE p.state = PARSE_WAIT_START -> feed_wait_start(p, byte)
           [] p.state = PARSE_VERSION    -> feed_version(p, byte)
           [] p.state = PARSE_COMMAND    -> feed_command(p, byte)
           [] p.state = PARSE_SEQ_ID     -> feed_seq_id(p, byte)
           [] p.state = PARSE_LENGTH     -> feed_length(p, byte)
           [] p.state = PARSE_PAYLOAD    -> feed_payload(p, byte)
           [] p.state = PARSE_CRC_HIGH   -> feed_crc_high(p, byte)
           [] p.state = PARSE_CRC_LOW    -> feed_crc_low(p, byte)
           [] OTHER                      -> FeedResult(parser_reset(p), FALSE, -1)

dm_parser_feed(p, byte) ==
    CASE p.state = PARSE_WAIT_START -> feed_wait_start(p, byte)
      [] p.state = PARSE_VERSION    -> feed_version(p, byte)
      [] p.state = PARSE_COMMAND    -> feed_command(p, byte)
      [] p.state = PARSE_SEQ_ID     -> feed_seq_id(p, byte)
      [] p.state = PARSE_LENGTH     -> feed_length(p, byte)
      [] p.state = PARSE_PAYLOAD    -> feed_payload(p, byte)
      [] p.state = PARSE_CRC_HIGH   -> feed_crc_high(p, byte)
      [] p.state = PARSE_CRC_LOW    -> feed_crc_low(p, byte)
      [] OTHER                      -> FeedResult(parser_reset(p), FALSE, -1)

\* The contexts a store past the end of frame.payload can leave behind: the
\* store lands in the fields that follow the array in dm_parser_t.
Clobbered(p) ==
    { [p EXCEPT !.payload_index = i, !.running_crc = c] :
        i \in 0..(DM_MAX_PAYLOAD + 1), c \in {p.running_crc, 0} }

(***************************************************************************)
(* State                                                                    *)
(***************************************************************************)

VARIABLES
    s_parser,       \* dm_core.c: the parser context
    s_seq_counter,  \* dm_packet.c: event sequence counter
    ui,             \* ui_pages.c: current page and widget state
    tx,             \* the write_bytes calls made so far, one byte sequence each
    plat_ok,        \* the platform pointer and its write_bytes slot are non-NULL
    binder,         \* dm_binder.c is linked in and overrides the weak UI handlers
    lastbyte,       \* history: the byte passed to the last dm_receive_byte (-1: none)
    rx,             \* history: the bytes fed after the start byte of the last frame begun
    dispatched,     \* history: the frames handed to dm_protocol_dispatch by the last call
    ndispatch,      \* history: number of dm_protocol_dispatch calls
    wr,             \* history: index of the payload store of the last call (-1: none)
    nfed,           \* history: number of bytes consumed as part of a frame so far
    stream,         \* the bytes the host has still to send (scripted scenarios)
    scn,            \* the scenario the host plays: what stream was built from
    call,           \* history: the last call made into dm_packet.h or ui_pages.h
    acc             \* the CRC accumulator of a caller of crc16_update

vars == <<s_parser, s_seq_counter, ui, tx, plat_ok, binder,
          lastbyte, rx, dispatched, ndispatch, wr, nfed, stream, scn, call, acc>>

(***************************************************************************)
(* dm_packet.c: encoder                                                     *)
(***************************************************************************)

NULL == <<>>

\* Mutant: the CRC is computed from frame[0], the start byte included.
dm_packet_frame_crc_from_start(cmd, seq, payload, payload_len) ==
    LET n == IF payload_len > DM_MAX_PAYLOAD THEN DM_MAX_PAYLOAD ELSE payload_len
        body == <<DM_PROTOCOL_VERSION, cmd, seq, n>> \o
                (IF payload # NULL /\ n > 0 THEN SubSeq(payload, 1, n) ELSE <<>>)
        crc == crc16_ccitt(<<DM_START_BYTE>> \o body)
    IN  <<DM_START_BYTE>> \o body \o <<crc \div 256, crc % 256>>

\* Mutant: the CRC is stored low byte first.
dm_packet_frame_crc_low_first(cmd, seq, payload, payload_len) ==
    LET n == IF payload_len > DM_MAX_PAYLOAD THEN DM_MAX_PAYLOAD ELSE payload_len
        body == <<DM_PROTOCOL_VERSION, cmd, seq, n>> \o
                (IF payload # NULL /\ n > 0 THEN SubSeq(payload, 1, n) ELSE <<>>)
        crc == crc16_ccitt(body)
    IN  <<DM_START_BYTE>> \o body \o <<crc % 256, crc \div 256>>

\* Mutant: the copy is clamped but the LEN byte carries the caller's length.
dm_packet_frame_len_unclamped(cmd, seq, payload, payload_len) ==
    LET n == IF payload_len > DM_MAX_PAYLOAD THEN DM_MAX_PAYLOAD ELSE payload_len
        body == <<DM_PROTOCOL_VERSION, cmd, seq, payload_len>> \o
                (IF payload # NULL /\ n > 0 THEN SubSeq(payload, 1, n) ELSE <<>>)
        crc == crc16_ccitt(body)
    IN  <<DM_START_BYTE>> \o body \o <<crc \div 256, crc % 256>>

\* The bytes dm_packet_send hands to write_bytes.  payload is the caller's
\* buffer (NULL or at least payload_len bytes long).
dm_packet_frame(cmd, seq, payload, payload_len) ==
    LET n == IF payload_len > DM_MAX_PAYLOAD THEN DM_MAX_PAYLOAD ELSE payload_len
        body == <<DM_PROTOCOL_VERSION, cmd, seq, n>> \o
                (IF payload # NULL /\ n > 0 THEN SubSeq(payload, 1, n) ELSE <<>>)
        crc == crc16_ccitt(body)
    IN  <<DM_START_BYTE>> \o body \o <<crc \div 256, crc % 256>>

\* dev is the device state a handler can change: [tx, seq, ui].
dm_packet_send(dev, cmd, seq, payload, payload_len) ==
    IF ~plat_ok THEN dev
    ELSE [dev EXCEPT !.tx = Append(@, dm_packet_frame(cmd, seq, payload, payload_len))]

dm_packet_send_ack(dev, seq, payload, payload_len) ==
    dm_packet_send(dev, EVT_ACK, seq, payload, payload_len)

\* Mutant: the negative response goes out with the ACK code.
dm_packet_send_nack_as_ack(dev, seq) ==
    dm_packet_send(dev, EVT_ACK, seq, NULL, 0)

dm_packet_send_nack(dev, seq) ==
    dm_packet_send(dev, EVT_NACK, seq, NULL, 0)

\* s_seq_counter++ is evaluated before the call, whether or not it transmits.
dm_packet_send_button_pressed(dev, widget_idx) ==
    dm_packet_send([dev EXCEPT !.seq = (@ + 1) % 256],
                   EVT_BUTTON_PRESSED, dev.seq, <<widget_idx>>, 1)

\* Mutant: the event counter is read but not advanced.
dm_packet_send_slider_changed_noinc(dev, widget_idx, value) ==
    LET u == (value + U16) % U16
    IN  dm_packet_send(dev, EVT_SLIDER_CHANGED, dev.seq,
                       <<widget_idx, u \div 256, u % 256>>, 3)

\* value is an int16_t; its two's complement bytes are sent big-endian.
dm_packet_send_slider_changed(dev, widget_idx, value) ==
    LET u == (value + U16) % U16
    IN  dm_packet_send([dev EXCEPT !.seq = (@ + 1) % 256],
                       EVT_SLIDER_CHANGED, dev.seq,
                       <<widget_idx, u \div 256, u % 256>>, 3)

dm_packet_send_page_changed(dev, page_id) ==
    dm_packet_send([dev EXCEPT !.seq = (@ + 1) % 256],
                   EVT_PAGE_CHANGED, dev.seq, <<page_id>>, 1)

dm_packet_send_touch_event(dev, x, y) ==
    LET ux == (x + U16) % U16
        uy == (y + U16) % U16
    IN  dm_packet_send([dev EXCEPT !.seq = (@ + 1) % 256],
                       EVT_TOUCH_EVENT, dev.seq,
                       <<ux \div 256, ux % 256, uy \div 256, uy % 256>>, 4)

(***************************************************************************)
(* ui_pages.c: widget registry and pages as ui_pages_init builds them       *)
(***************************************************************************)

WIDGET_LABEL == 0
WIDGET_SLIDER == 1
WIDGET_BUTTON == 2

\* s_widget_count and s_page_count after ui_pages_init.
s_widget_count == 5

s_page_count == 2

\* s_widgets[i].type in registration order (build_home_page, build_slider_page).
s_widgets ==
    [i \in 0..(s_widget_count - 1) |->
        CASE i = 2 -> WIDGET_BUTTON
          [] i = 4 -> WIDGET_SLIDER
          [] OTHER -> WIDGET_LABEL]

\* The state after ui_pages_init: page 0 shown, the texts of the labels (for
\* the button, of its child label), slider at its default value.  s_plat says
\* whether the platform reference of ui_pages.c is non-NULL: its initialiser
\* is NULL and no function of the repository assigns it.
ui_pages_init ==
    [s_plat |-> FALSE,
     s_current_page |-> 0,
     hidden   |-> [i \in 0..(s_widget_count - 1) |-> FALSE],
     disabled |-> [i \in 0..(s_widget_count - 1) |-> FALSE],
     text     |-> [i \in 0..(s_widget_count - 1) |->
                     CASE i = 0 -> <<104, 109, 105, 99, 32, 68, 105, 115, 112, 108, 97, 121, 32, 77, 97, 110, 97, 103, 101, 114>>
                       [] i = 1 -> <<87, 97, 105, 116, 105, 110, 103, 32, 102, 111, 114, 32, 104, 111, 115, 116, 46, 46, 46>>
                       [] i = 2 -> <<79, 75>>
                       [] i = 3 -> <<65, 100, 106, 117, 115, 116, 32, 118, 97, 108, 117, 101, 58>>
                       [] OTHER -> <<>>],
     value    |-> 0]

\* A NUL-terminated string as the toolkit reads it: the bytes before the first 0.
CStr(t) ==
    LET nul == {i \in 1..Len(t) : t[i] = 0}
    IN  IF nul = {} THEN t
        ELSE SubSeq(t, 1, (CHOOSE i \in nul : \A j \in nul : i <= j) - 1)

\* Mutant: the page id is stored before it is tested.
ui_pages_show_store_first(u, page_id) ==
    [ok |-> page_id < s_page_count, ui |-> [u EXCEPT !.s_current_page = page_id]]

\* Each UI operation gives [ok |-> its return value, ui |-> the state afterwards].
ui_pages_show(u, page_id) ==
    IF page_id >= s_page_count THEN [ok |-> FALSE, ui |-> u]
    ELSE [ok |-> TRUE, ui |-> [u EXCEPT !.s_current_page = page_id]]

ui_pages_set_text(u, widget_idx, text) ==
    IF widget_idx >= s_widget_count THEN [ok |-> FALSE, ui |-> u]
    ELSE IF s_widgets[widget_idx] \in {WIDGET_LABEL, WIDGET_BUTTON}
         THEN [ok |-> TRUE, ui |-> [u EXCEPT !.text[widget_idx] = CStr(text)]]
         ELSE [ok |-> FALSE, ui |-> u]

\* Mutant: any registered widget takes a value.
ui_pages_set_value_anywidget(u, widget_idx, value) ==
    IF widget_idx >= s_widget_count THEN [ok |-> FALSE, ui |-> u]
    ELSE [ok |-> TRUE,
          ui |-> [u EXCEPT !.value = IF value < 0 THEN 0
                                     ELSE IF value > 100 THEN 100 ELSE value]]

\* lv_slider_set_value keeps the value inside the range set at creation (0..100).
ui_pages_set_value(u, widget_idx, value) ==
    IF widget_idx >= s_widget_count THEN [ok |-> FALSE, ui |-> u]
    ELSE IF s_widgets[widget_idx] = WIDGET_SLIDER
         THEN [ok |-> TRUE,
               ui |-> [u EXCEPT !.value = IF value < 0 THEN 0
                                          ELSE IF value > 100 THEN 100 ELSE value]]
         ELSE [ok |-> FALSE, ui |-> u]

ui_pages_set_visible(u, widget_idx, visible) ==
    IF widget_idx >= s_widget_count THEN u
    ELSE [u EXCEPT !.hidden[widget_idx] = ~visible]

ui_pages_set_enabled(u, widget_idx, enabled) ==
    IF widget_idx >= s_widget_count THEN u
    ELSE [u EXCEPT !.disabled[widget_idx] = ~enabled]

\* btn_event_cb for a click on the object registered as widget btn: the loop
\* over the registry sends for the first entry whose object is btn, if s_plat
\* is set.
btn_event_cb(dev, btn) ==
    IF btn < s_widget_count /\ dev.ui.s_plat
    THEN dm_packet_send_button_pressed(dev, btn)
    ELSE dev

\* slider_event_cb for a value change of the object registered as widget
\* slider; val is lv_slider_get_value as int16_t.
slider_event_cb(dev, slider) ==
    LET val == dev.ui.value
    IN  IF slider < s_widget_count /\ dev.ui.s_plat
        THEN dm_packet_send_slider_changed(dev, slider, val)
        ELSE dev

(***************************************************************************)
(* dm_binder.c: handler overrides.  p is the frame's payload buffer         *)
(* (p[i] of the source is p[i + 1]), len the frame's payload_len.           *)
(***************************************************************************)

\* Mutant: the page-changed event is sent before the response.
dm_handle_show_page_event_first(dev, seq, p, len) ==
    IF len < 1 THEN dm_packet_send_nack(dev, seq)
    ELSE LET page_id == p[1]
             r == ui_pages_show(dev.ui, page_id)
         IN  IF r.ok
             THEN dm_packet_send_ack(
                      dm_packet_send_page_changed([dev EXCEPT !.ui = r.ui], page_id),
                      seq, NULL, 0)
             ELSE dm_packet_send_nack([dev EXCEPT !.ui = r.ui], seq)

\* Mutant: SHOW_PAGE reads the page id without testing the payload length.
dm_handle_show_page_nolen(dev, seq, p, len) ==
    LET page_id == p[1]
        r == ui_pages_show(dev.ui, page_id)
    IN  IF r.ok
        THEN dm_packet_send_page_changed(
                 dm_packet_send_ack([dev EXCEPT !.ui = r.ui], seq, NULL, 0),
                 page_id)
        ELSE dm_packet_send_nack([dev EXCEPT !.ui = r.ui], seq)

dm_handle_show_page(dev, seq, p, len) ==
    IF len < 1 THEN dm_packet_send_nack(dev, seq)
    ELSE LET page_id == p[1]
             r == ui_pages_show(dev.ui, page_id)
         IN  IF r.ok
             THEN dm_packet_send_page_changed(
                      dm_packet_send_ack([dev EXCEPT !.ui = r.ui], seq, NULL, 0),
                      page_id)
             ELSE dm_packet_send_nack([dev EXCEPT !.ui = r.ui], seq)

\* Mutant: the text length is not clamped to the buffer.
set_text_copy_unclamped(p, len) ==
    SubSeq(p, 2, len) \o <<0>>

\* The stores dm_handle_set_text makes into its local text[DM_MAX_TEXT_LEN],
\* in index order from text[0]: the memcpy of text_len bytes and the
\* terminator at text[text_len].
set_text_copy(p, len) ==
    LET text_len == IF len - 1 >= DM_MAX_TEXT_LEN THEN DM_MAX_TEXT_LEN - 1
                    ELSE len - 1
    IN  SubSeq(p, 2, 1 + text_len) \o <<0>>

\* Mutant: the handler goes on after refusing a short payload.
dm_handle_set_text_noreturn(dev, seq, p, len) ==
    LET d0 == IF len < 2 THEN dm_packet_send_nack(dev, seq) ELSE dev
        widget_idx == p[1]
        text == IF len < 2 THEN <<0>> ELSE set_text_copy(p, len)
        r == ui_pages_set_text(d0.ui, widget_idx, text)
    IN  IF r.ok
        THEN dm_packet_send_ack([d0 EXCEPT !.ui = r.ui], seq, NULL, 0)
        ELSE dm_packet_send_nack([d0 EXCEPT !.ui = r.ui], seq)

dm_handle_set_text(dev, seq, p, len) ==
    IF len < 2 THEN dm_packet_send_nack(dev, seq)
    ELSE LET widget_idx == p[1]
             text == set_text_copy(p, len)
             r == ui_pages_set_text(dev.ui, widget_idx, text)
         IN  IF r.ok
             THEN dm_packet_send_ack([dev EXCEPT !.ui = r.ui], seq, NULL, 0)
             ELSE dm_packet_send_nack([dev EXCEPT !.ui = r.ui], seq)

\* Mutant: two payload bytes are taken to be enough.
dm_handle_set_value_len2(dev, seq, p, len) ==
    IF len < 2 THEN dm_packet_send_nack(dev, seq)
    ELSE LET widget_idx == p[1]
             u16 == p[2] * 256 + p[3]
             value == IF u16 >= 32768 THEN u16 - U16 ELSE u16
             r == ui_pages_set_value(dev.ui, widget_idx, value)
         IN  IF r.ok
             THEN dm_packet_send_ack([dev EXCEPT !.ui = r.ui], seq, NULL, 0)
             ELSE dm_packet_send_nack([dev EXCEPT !.ui = r.ui], seq)

dm_handle_set_value(dev, seq, p, len) ==
    IF len < 3 THEN dm_packet_send_nack(dev, seq)
    ELSE LET widget_idx == p[1]
             u16 == p[2] * 256 + p[3]
             value == IF u16 >= 32768 THEN u16 - U16 ELSE u16
             r == ui_pages_set_value(dev.ui, widget_idx, value)
         IN  IF r.ok
             THEN dm_packet_send_ack([dev EXCEPT !.ui = r.ui], seq, NULL, 0)
             ELSE dm_packet_send_nack([dev EXCEPT !.ui = r.ui], seq)

\* Mutant: an index outside the registry is refused.
dm_handle_set_visible_checked(dev, seq, p, len) ==
    IF len < 2 \/ p[1] >= s_widget_count THEN dm_packet_send_nack(dev, seq)
    ELSE dm_packet_send_ack(
             [dev EXCEPT !.ui = ui_pages_set_visible(@, p[1], p[2] # 0)],
             seq, NULL, 0)

dm_handle_set_visible(dev, seq, p, len) ==
    IF len < 2 THEN dm_packet_send_nack(dev, seq)
    ELSE dm_packet_send_ack(
             [dev EXCEPT !.ui = ui_pages_set_visible(@, p[1], p[2] # 0)],
             seq, NULL, 0)

dm_handle_set_enabled(dev, seq, p, len) ==
    IF len < 2 THEN dm_packet_send_nack(dev, seq)
    ELSE dm_packet_send_ack(
             [dev EXCEPT !.ui = ui_pages_set_enabled(@, p[1], p[2] # 0)],
             seq, NULL, 0)

(***************************************************************************)
(* dm_protocol.c: weak default handlers and the dispatcher                  *)
(***************************************************************************)

dm_handle_ping(dev, seq, p, len) == dm_packet_send_ack(dev, seq, NULL, 0)

\* Mutant: the version is acknowledged without its payload.
dm_handle_get_version_nopayload(dev, seq, p, len) ==
    dm_packet_send_ack(dev, seq, NULL, 0)

dm_handle_get_version(dev, seq, p, len) ==
    dm_packet_send_ack(dev, seq, <<DM_PROTOCOL_VERSION, 0, 0>>, 3)

dm_handle_reset(dev, seq, p, len) == dm_packet_send_ack(dev, seq, NULL, 0)

dm_handle_enter_bootloader(dev, seq, p, len) == dm_packet_send_nack(dev, seq)

\* The weak definition of the five UI handlers, used when no override is linked.
dm_handle_ui_weak(dev, seq, p, len) == dm_packet_send_nack(dev, seq)

dm_protocol_dispatch(dev, frame) ==
    LET seq == frame.seq_id
        p == frame.payload
        len == frame.payload_len
    IN  CASE frame.command = CMD_PING -> dm_handle_ping(dev, seq, p, len)
          [] frame.command = CMD_GET_VERSION -> dm_handle_get_version(dev, seq, p, len)
          [] frame.command = CMD_RESET -> dm_handle_reset(dev, seq, p, len)
          [] frame.command = CMD_ENTER_BOOTLOADER ->
                 dm_handle_enter_bootloader(dev, seq, p, len)
          [] frame.command = CMD_SHOW_PAGE ->
                 IF binder THEN dm_handle_show_page(dev, seq, p, len)
                 ELSE dm_handle_ui_weak(dev, seq, p, len)
          [] frame.command = CMD_SET_TEXT ->
                 IF binder THEN dm_handle_set_text(dev, seq, p, len)
                 ELSE dm_handle_ui_weak(dev, seq, p, len)
          [] frame.command = CMD_SET_VALUE ->
                 IF binder THEN dm_handle_set_value(dev, seq, p, len)
                 ELSE dm_handle_ui_weak(dev, seq, p, len)
          [] frame.command = CMD_SET_VISIBLE ->
                 IF binder THEN dm_handle_set_visible(dev, seq, p, len)
                 ELSE dm_handle_ui_weak(dev, seq, p, len)
          [] frame.command = CMD_SET_ENABLED ->
                 IF binder THEN dm_handle_set_enabled(dev, seq, p, len)
                 ELSE dm_handle_ui_weak(dev, seq, p, len)
          [] OTHER -> dm_packet_send_nack(dev, seq)

(***************************************************************************)
(* dm_core.c: initialisation and the byte entry point                       *)
(***************************************************************************)

\* The state after dm_init(&s_platform) and dm_binder_init(&s_platform), as
\* every board's main() calls them, with nothing received yet.
dm_init ==
    /\ s_parser = dm_parser_init
    /\ s_seq_counter = 0
    /\ ui = ui_pages_init
    /\ tx = <<>>
    /\ plat_ok = TRUE
    /\ binder = TRUE
    /\ lastbyte = -1
    /\ rx = <<>>
    /\ dispatched = <<>>
    /\ ndispatch = 0
    /\ wr = -1
    /\ nfed = 0

\* The application has called nothing, and no CRC is being accumulated.
NoCalls == call = [op |-> "none", args |-> <<>>, nth |-> 0] /\ acc = 65535

\* dm_receive_byte(byte): dm_parser_feed on the module's parser context, with
\* the dispatch it may make and everything the handler transmits.
dm_receive_byte(byte) ==
    \E r \in {dm_parser_feed(s_parser, byte)} :
    \E out \in {IF r.dispatch
                THEN dm_protocol_dispatch([tx |-> tx, seq |-> s_seq_counter, ui |-> ui],
                                          r.p.frame)
                ELSE [tx |-> tx, seq |-> s_seq_counter, ui |-> ui]} :
        /\ IF r.wr >= DM_MAX_PAYLOAD
           THEN s_parser' \in Clobbered(r.p)
           ELSE s_parser' = r.p
        /\ tx' = out.tx
        /\ s_seq_counter' = out.seq
        /\ ui' = out.ui
        /\ UNCHANGED <<plat_ok, binder, call, acc>>
        /\ lastbyte' = byte
        /\ rx' = IF s_parser.state = PARSE_WAIT_START THEN <<>> ELSE Append(rx, byte)
        /\ dispatched' = IF r.dispatch THEN <<r.p.frame>> ELSE <<>>
        /\ ndispatch' = ndispatch + (IF r.dispatch THEN 1 ELSE 0)
        /\ wr' = r.wr
        /\ nfed' = IF s_parser.state = PARSE_WAIT_START /\ byte # DM_START_BYTE
                   THEN nfed ELSE nfed + 1

(***************************************************************************)
(* Specification Spec: the host sends an arbitrary byte stream              *)
(***************************************************************************)

\* The host stops once the parser has consumed MaxStream bytes more than one
\* frame of the greatest size as parts of frames (start bytes included; bytes
\* discarded between frames are not counted).
MaxStream == 4

\* The byte values the host chooses from: a payload length of zero, of one and
\* of the whole buffer, and the start byte (which is also an unknown command
\* and a length beyond the buffer); 1 is also the protocol version and
\* CMD_PING.  While the parser waits for a CRC byte the host may also send the
\* byte that matches the running CRC.
Alphabet == {0, 1, DM_MAX_PAYLOAD, DM_START_BYTE}

HostBytes(p) ==
    Alphabet \cup
    (CASE p.state = PARSE_CRC_HIGH -> {p.running_crc \div 256}
       [] p.state = PARSE_CRC_LOW  -> {p.running_crc % 256}
       [] OTHER -> {})

HostByte ==
    /\ nfed < DM_MAX_FRAME_SIZE + MaxStream
    /\ \E b \in HostBytes(s_parser) : dm_receive_byte(b)
    /\ UNCHANGED <<stream, scn>>

Init == dm_init /\ NoCalls /\ stream = <<>> /\ scn = [kind |-> "any"]

Next == HostByte

Spec == Init /\ [][Next]_vars

(***************************************************************************)
(* Properties of the parser under an arbitrary byte stream (Spec)           *)
(***************************************************************************)

\* The header and payload bytes of a frame, in wire order.
FrameBody(f) ==
    <<f.version, f.command, f.seq_id, f.payload_len>> \o
    SubSeq(f.payload, 1, f.payload_len)

\* C2: every frame handed to the dispatcher has payload_len <= DM_MAX_PAYLOAD,
\* its fields are exactly the bytes fed after the consumed start byte, in
\* order, and the two bytes fed after the payload are the big-endian
\* CRC16-CCITT of those bytes.
C2_DeliveredFrameValid ==
    dispatched # <<>> =>
        LET f == dispatched[1]
            n == 4 + f.payload_len
        IN  /\ f.payload_len <= DM_MAX_PAYLOAD
            /\ Len(rx) = n + 2
            /\ SubSeq(rx, 1, n) = FrameBody(f)
            /\ rx[n + 1] * 256 + rx[n + 2] = crc16_ccitt(SubSeq(rx, 1, n))

\* C2 witness: a frame with a full payload that contains a start byte was
\* delivered.
C2_Witness ==
    /\ dispatched # <<>>
    /\ dispatched[1].payload_len = DM_MAX_PAYLOAD
    /\ dispatched[1].payload[DM_MAX_PAYLOAD] = DM_START_BYTE

\* C3: every store into frame.payload is at an index below DM_MAX_PAYLOAD, and
\* once the length byte was accepted payload_index <= payload_len <=
\* DM_MAX_PAYLOAD.
C3_NoBufferOverrun ==
    /\ wr < DM_MAX_PAYLOAD
    /\ s_parser.state \in {PARSE_PAYLOAD, PARSE_CRC_HIGH, PARSE_CRC_LOW} =>
           /\ s_parser.payload_index <= s_parser.frame.payload_len
           /\ s_parser.frame.payload_len <= DM_MAX_PAYLOAD

\* C3 witness: the last cell of the buffer was just written.
C3_Witness ==
    /\ wr = DM_MAX_PAYLOAD - 1
    /\ s_parser.state = PARSE_CRC_HIGH
    /\ s_parser.payload_index = DM_MAX_PAYLOAD

\* C4 as claimed: a start byte fed in any state other than WAIT_START aborts
\* the frame and leaves the parser in VERSION with running CRC 0xFFFF and
\* payload index 0.
C4_StartByteAlwaysResyncs ==
    [][(lastbyte' = DM_START_BYTE /\ s_parser.state # PARSE_WAIT_START) =>
           /\ s_parser'.state = PARSE_VERSION
           /\ s_parser'.running_crc = 65535
           /\ s_parser'.payload_index = 0]_vars

\* C4 amended: the start byte restarts header accumulation only in WAIT_START
\* (state VERSION, running CRC 0xFFFF, payload index 0 afterwards); fed in any
\* other state it is an ordinary byte of the frame in progress: it is stored
\* as the version, command, seq_id, payload byte or CRC high byte and the
\* state advances, as a length it exceeds DM_MAX_PAYLOAD and is counted as a
\* length error, as the CRC low byte it ends the frame; the parser is never
\* in VERSION afterwards.
C4_StartByteOnlyInWaitStart ==
    [][lastbyte' = DM_START_BYTE =>
        LET p == s_parser
            q == s_parser'
        IN  CASE p.state = PARSE_WAIT_START ->
                     /\ q.state = PARSE_VERSION
                     /\ q.running_crc = 65535
                     /\ q.payload_index = 0
              [] p.state = PARSE_VERSION ->
                     q.state = PARSE_COMMAND /\ q.frame.version = DM_START_BYTE
              [] p.state = PARSE_COMMAND ->
                     q.state = PARSE_SEQ_ID /\ q.frame.command = DM_START_BYTE
              [] p.state = PARSE_SEQ_ID ->
                     q.state = PARSE_LENGTH /\ q.frame.seq_id = DM_START_BYTE
              [] p.state = PARSE_LENGTH ->
                     /\ q.state = PARSE_WAIT_START
                     /\ q.frames_len_err = p.frames_len_err + 1
              [] p.state = PARSE_PAYLOAD ->
                     /\ q.state \in {PARSE_PAYLOAD, PARSE_CRC_HIGH}
                     /\ q.payload_index = p.payload_index + 1
                     /\ q.frame.payload[q.payload_index] = DM_START_BYTE
              [] p.state = PARSE_CRC_HIGH ->
                     q.state = PARSE_CRC_LOW /\ q.crc_high = DM_START_BYTE
              [] p.state = PARSE_CRC_LOW ->
                     /\ q.state = PARSE_WAIT_START
                     /\ q.frames_ok + q.frames_crc_err =
                            p.frames_ok + p.frames_crc_err + 1]_vars

\* C4 witness: a start byte was taken as the last payload byte of a frame in
\* progress, which then went on to its CRC.
C4_Witness ==
    /\ lastbyte = DM_START_BYTE
    /\ s_parser.state = PARSE_CRC_HIGH
    /\ s_parser.frame.payload_len = DM_MAX_PAYLOAD
    /\ s_parser.frame.payload[DM_MAX_PAYLOAD] = DM_START_BYTE

\* C10: while the parser is out of WAIT_START it has consumed fewer than
\* DM_MAX_FRAME_SIZE bytes since and including the start byte, so it is back
\* in WAIT_START after at most DM_MAX_FRAME_SIZE bytes whatever their values;
\* and the byte that brings it back either delivers one frame (frames_ok + 1)
\* or increments exactly one error counter.
C10_BoundedResync ==
    [][/\ s_parser'.state # PARSE_WAIT_START => Len(rx') + 1 < DM_MAX_FRAME_SIZE
       /\ (s_parser.state # PARSE_WAIT_START /\ s_parser'.state = PARSE_WAIT_START) =>
              /\ Len(rx') + 1 <= DM_MAX_FRAME_SIZE
              /\ \/ /\ dispatched' # <<>>
                    /\ s_parser'.frames_ok = s_parser.frames_ok + 1
                    /\ s_parser'.frames_crc_err = s_parser.frames_crc_err
                    /\ s_parser'.frames_len_err = s_parser.frames_len_err
                 \/ /\ dispatched' = <<>>
                    /\ s_parser'.frames_ok = s_parser.frames_ok
                    /\ s_parser'.frames_crc_err + s_parser'.frames_len_err =
                           s_parser.frames_crc_err + s_parser.frames_len_err + 1]_vars

\* C10 witness: a frame of the greatest size was rejected by its very last
\* byte, DM_MAX_FRAME_SIZE bytes after its start byte, all of them start bytes
\* but the length.
C10_Witness ==
    /\ s_parser.state = PARSE_WAIT_START
    /\ Len(rx) + 1 = DM_MAX_FRAME_SIZE
    /\ s_parser.frames_crc_err = 1
    /\ \A i \in 1..Len(rx) : i # 4 => rx[i] = DM_START_BYTE

(***************************************************************************)
(* Scripted scenarios: the host plays a stream fixed at the start           *)
(***************************************************************************)

HostStream ==
    /\ stream # <<>>
    /\ dm_receive_byte(Head(stream))
    /\ stream' = Tail(stream)
    /\ UNCHANGED scn

NextStream == HostStream

\* All sequences over S of length at most n.
RECURSIVE SeqUpTo(_, _)
SeqUpTo(S, n) ==
    IF n = 0 THEN {<<>>}
    ELSE LET R == SeqUpTo(S, n - 1)
         IN  R \cup {Append(q, x) : q \in {r \in R : Len(r) = n - 1}, x \in S}

\* The requests the host encodes: PING and SHOW_PAGE, with every payload over
\* {0x00, 0xAA} that fits the buffer.
HostCmds == {CMD_PING, CMD_SHOW_PAGE}

HostSeqs == {123}

HostPayloads == SeqUpTo({0, DM_START_BYTE}, DM_MAX_PAYLOAD)

\* The host uses the same encoder as the device.
Encode(cmd, seq, payload) == dm_packet_frame(cmd, seq, payload, Len(payload))

\* The parser context after feeding bytes to p, dispatches aside.
RECURSIVE FeedAll(_, _)
FeedAll(p, bytes) ==
    IF bytes = <<>> THEN p
    ELSE FeedAll(dm_parser_feed(p, Head(bytes)).p, Tail(bytes))

(***************************************************************************)
(* Specification SpecRT: garbage, then one encoded frame                    *)
(***************************************************************************)

MaxGarbage == 5

GarbageBytes == {0, 255, DM_START_BYTE}

InitRT ==
    /\ dm_init
    /\ NoCalls
    /\ scn \in [kind : {"rt"}, pre : SeqUpTo(GarbageBytes, MaxGarbage),
                cmd : HostCmds, seq : HostSeqs, payload : HostPayloads]
    /\ stream = scn.pre \o Encode(scn.cmd, scn.seq, scn.payload)

SpecRT == InitRT /\ [][NextStream]_vars

\* f is the frame the host encoded in this scenario.
IsHostFrame(f) ==
    /\ f.version = DM_PROTOCOL_VERSION
    /\ f.command = scn.cmd
    /\ f.seq_id = scn.seq
    /\ f.payload_len = Len(scn.payload)
    /\ SubSeq(f.payload, 1, Len(scn.payload)) = scn.payload

\* The host's frame, and nothing else, has been delivered by the last byte.
DeliveredHostFrame ==
    /\ ndispatch = 1
    /\ dispatched # <<>>
    /\ IsHostFrame(dispatched[1])

NoStartByte(bytes) == \A i \in 1..Len(bytes) : bytes[i] # DM_START_BYTE

\* C1: the bytes of dm_packet_send(cmd, seq, payload) fed one by one into a
\* fresh parser call the dispatcher exactly once, at the last byte, with a
\* frame of version DM_PROTOCOL_VERSION whose command, seq_id, payload_len and
\* payload are the encoder's inputs, and leave frames_ok = 1 and both error
\* counters 0.
C1_RoundTrip ==
    scn.pre = <<>> =>
        /\ stream # <<>> => ndispatch = 0
        /\ stream = <<>> =>
               /\ DeliveredHostFrame
               /\ s_parser.frames_ok = 1
               /\ s_parser.frames_crc_err = 0
               /\ s_parser.frames_len_err = 0

\* C1 witness: a frame with a full payload of start bytes made the round trip.
C1_Witness ==
    /\ scn.pre = <<>>
    /\ stream = <<>>
    /\ ndispatch = 1
    /\ Len(scn.payload) = DM_MAX_PAYLOAD
    /\ \A i \in 1..DM_MAX_PAYLOAD : dispatched[1].payload[i] = DM_START_BYTE

\* The garbage prefix neither ends in a start byte nor contains a frame that
\* validates.
GarbageAsClaimed ==
    /\ scn.pre = <<>> \/ scn.pre[Len(scn.pre)] # DM_START_BYTE
    /\ FeedAll(dm_parser_init, scn.pre).frames_ok = 0

\* C6 as claimed: after any garbage prefix that contains no validating frame
\* and does not end in 0xAA, the encoded frame is delivered, it alone, and
\* frames_ok = 1.
C6_ResyncAfterAnyGarbage ==
    (stream = <<>> /\ GarbageAsClaimed) =>
        DeliveredHostFrame /\ s_parser.frames_ok = 1

\* C6 amended: the same, for the garbage prefixes that moreover leave the
\* parser in WAIT_START (every frame a 0xAA of the garbage began has ended
\* within the garbage).
C6_ResyncAfterGarbage ==
    (/\ stream = <<>>
     /\ GarbageAsClaimed
     /\ FeedAll(dm_parser_init, scn.pre).state = PARSE_WAIT_START) =>
        DeliveredHostFrame /\ s_parser.frames_ok = 1

\* C6 witness: the garbage held a start byte and a header that was rejected
\* for its length, and the frame after it was delivered.
C6_Witness ==
    /\ stream = <<>>
    /\ GarbageAsClaimed
    /\ ~NoStartByte(scn.pre)
    /\ s_parser.frames_len_err = 1
    /\ DeliveredHostFrame

\* C7: a byte other than 0xAA fed in WAIT_START changes nothing in the parser
\* context and transmits nothing; and a prefix of such bytes followed by an
\* encoded frame delivers that frame alone, with frames_ok = 1 and no error
\* counted, and its response is transmitted (for PING the empty ACK with the
\* request's seq, otherwise an ACK or NACK with the request's seq first).
C7_GarbageDiscarded ==
    [][/\ (s_parser.state = PARSE_WAIT_START /\ stream # <<>>
              /\ Head(stream) # DM_START_BYTE) =>
              /\ s_parser' = s_parser
              /\ tx' = tx
              /\ s_seq_counter' = s_seq_counter
              /\ ui' = ui
       /\ (NoStartByte(scn.pre) /\ stream' = <<>>) =>
              /\ DeliveredHostFrame'
              /\ s_parser'.frames_ok = 1
              /\ s_parser'.frames_crc_err = 0
              /\ s_parser'.frames_len_err = 0
              /\ tx' # <<>>
              /\ tx'[1][3] \in {EVT_ACK, EVT_NACK}
              /\ tx'[1][4] = scn.seq
              /\ scn.cmd = CMD_PING =>
                     tx' = <<dm_packet_frame(EVT_ACK, scn.seq, NULL, 0)>>]_vars

\* C7 witness: the longest prefix of bytes other than 0xAA was discarded, then
\* a PING was delivered and acknowledged.
C7_Witness ==
    /\ Len(scn.pre) = MaxGarbage
    /\ NoStartByte(scn.pre)
    /\ stream = <<>>
    /\ scn.cmd = CMD_PING
    /\ s_parser.frames_ok = 1
    /\ Len(tx) = 1

(***************************************************************************)
(* Specification SpecFlip: one encoded frame with one bit inverted          *)
(***************************************************************************)

\* bytes with bit number bit inverted; bit 0 is the least significant bit of
\* the first byte.
FlipAt(bytes, bit) ==
    [bytes EXCEPT ![bit \div 8 + 1] = FlipBit(@, 2 ^ (bit % 8))]

FlipSeqs == {0, 123, DM_START_BYTE}

\* Every bit of the frame outside its first byte, the start byte.
InitFlip ==
    /\ dm_init
    /\ NoCalls
    /\ scn \in {[kind |-> "flip", cmd |-> c, seq |-> q, payload |-> pl, bit |-> b] :
                   c \in HostCmds, q \in FlipSeqs, pl \in HostPayloads,
                   b \in 8..(8 * DM_MAX_FRAME_SIZE - 1)}
    /\ scn.bit < 8 * Len(Encode(scn.cmd, scn.seq, scn.payload))
    /\ stream = FlipAt(Encode(scn.cmd, scn.seq, scn.payload), scn.bit)

SpecFlip == InitFlip /\ [][NextStream]_vars

\* The inverted bit lies in the LEN byte, frame[4].
FlipInLength == scn.bit \div 8 = 4

\* C5 as claimed: a frame with one bit inverted anywhere outside the start
\* byte is not delivered: frames_ok stays 0 and frames_crc_err becomes at
\* least 1.
C5_AnyBitFlipRejected ==
    stream = <<>> =>
        /\ s_parser.frames_ok = 0
        /\ s_parser.frames_crc_err >= 1

\* C5 amended: the same for a bit inverted outside the start byte and outside
\* the LEN byte; and no such frame is dispatched at any byte.
C5_BitFlipRejected ==
    ~FlipInLength =>
        /\ ndispatch = 0
        /\ stream = <<>> =>
               /\ s_parser.frames_ok = 0
               /\ s_parser.frames_crc_err >= 1

\* C5 witness: a frame with a bit of its last payload byte inverted was fed
\* whole and counted as a CRC error.
C5_Witness ==
    /\ stream = <<>>
    /\ Len(scn.payload) = DM_MAX_PAYLOAD
    /\ scn.bit \div 8 = DM_HEADER_SIZE + DM_MAX_PAYLOAD - 1
    /\ s_parser.frames_crc_err = 1
    /\ s_parser.frames_ok = 0

(***************************************************************************)
(* Specification SpecOvf: a header with any LEN, a body, then one frame     *)
(***************************************************************************)

MaxBody == 3

OvfHeaders == {<<1, 32, 0>>, <<0, 255, 1>>,
               <<DM_START_BYTE, DM_START_BYTE, DM_START_BYTE>>}

OvfLengths == {DM_MAX_PAYLOAD, DM_MAX_PAYLOAD + 1, 255}

BodyBytes == {0, 255, DM_START_BYTE}

\* Either any header and LEN directly followed by any encoded frame, or the
\* header AA 01 20 00 FF followed by a body and an encoded PING.
InitOvf ==
    /\ dm_init
    /\ NoCalls
    /\ scn \in [kind : {"ovf"}, hdr : OvfHeaders, len : OvfLengths, body : {<<>>},
                cmd : HostCmds, seq : HostSeqs, payload : HostPayloads]
               \cup
               [kind : {"ovf"}, hdr : {<<1, 32, 0>>}, len : {255},
                body : SeqUpTo(BodyBytes, MaxBody),
                cmd : {CMD_PING}, seq : HostSeqs, payload : HostPayloads]
    /\ stream = <<DM_START_BYTE>> \o scn.hdr \o <<scn.len>> \o scn.body
                    \o Encode(scn.cmd, scn.seq, scn.payload)

SpecOvf == InitOvf /\ [][NextStream]_vars

\* The bytes of the stream that have been fed.
FedBytes ==
    Len(<<DM_START_BYTE>> \o scn.hdr \o <<scn.len>> \o scn.body
            \o Encode(scn.cmd, scn.seq, scn.payload)) - Len(stream)

\* C8: a LEN byte above DM_MAX_PAYLOAD adds exactly one to frames_len_err,
\* returns the parser to WAIT_START, delivers nothing and counts neither a
\* good frame nor a CRC error; the valid frame that follows is delivered.  A
\* LEN byte equal to DM_MAX_PAYLOAD is accepted: no length error, and the
\* parser goes on to read the payload.
C8_LengthOverflow ==
    scn.body = <<>> =>
        /\ FedBytes < DM_HEADER_SIZE =>
               /\ s_parser.frames_len_err = 0
               /\ s_parser.frames_ok = 0
               /\ s_parser.frames_crc_err = 0
        /\ (FedBytes = DM_HEADER_SIZE /\ scn.len > DM_MAX_PAYLOAD) =>
               /\ s_parser.frames_len_err = 1
               /\ s_parser.frames_ok = 0
               /\ s_parser.frames_crc_err = 0
               /\ s_parser.state = PARSE_WAIT_START
               /\ ndispatch = 0
               /\ tx = <<>>
        /\ (stream = <<>> /\ scn.len > DM_MAX_PAYLOAD) =>
               /\ s_parser.frames_len_err = 1
               /\ s_parser.frames_ok = 1
               /\ DeliveredHostFrame
        /\ (FedBytes = DM_HEADER_SIZE /\ scn.len = DM_MAX_PAYLOAD) =>
               /\ s_parser.frames_len_err = 0
               /\ s_parser.state = PARSE_PAYLOAD
               /\ s_parser.frame.payload_len = DM_MAX_PAYLOAD

\* C8 witness: LEN = DM_MAX_PAYLOAD + 1 was rejected and the frame that
\* followed it was delivered.
C8_Witness ==
    /\ scn.body = <<>>
    /\ scn.len = DM_MAX_PAYLOAD + 1
    /\ stream = <<>>
    /\ s_parser.frames_len_err = 1
    /\ s_parser.frames_ok = 1

\* The scenario S6 generalised: AA 01 20 00 FF, a body, then a PING.
IsS6 == scn.hdr = <<1, 32, 0>> /\ scn.len = 255 /\ scn.cmd = CMD_PING

\* C9 as claimed: after AA 01 20 00 FF, an arbitrary body (0xAA included) and
\* a valid PING, frames_len_err = 1, frames_ok = 1 and the ACK of the PING is
\* transmitted.
C9_OverflowThenAnyBody ==
    (IsS6 /\ stream = <<>>) =>
        /\ s_parser.frames_len_err = 1
        /\ s_parser.frames_ok = 1
        /\ tx = <<dm_packet_frame(EVT_ACK, scn.seq, NULL, 0)>>

\* C9 amended: the same for a body that holds no 0xAA.
C9_OverflowThenBody ==
    (IsS6 /\ NoStartByte(scn.body) /\ stream = <<>>) =>
        /\ s_parser.frames_len_err = 1
        /\ s_parser.frames_ok = 1
        /\ tx = <<dm_packet_frame(EVT_ACK, scn.seq, NULL, 0)>>

\* C9 witness: a body of the greatest length without 0xAA was discarded and
\* the PING after it acknowledged.
C9_Witness ==
    /\ IsS6
    /\ Len(scn.body) = MaxBody
    /\ NoStartByte(scn.body)
    /\ stream = <<>>
    /\ s_parser.frames_len_err = 1
    /\ Len(tx) = 1

(***************************************************************************)
(* Specification SpecReq: one valid request, with or without the binder     *)
(***************************************************************************)

\* The commands of dm_protocol.h.
CoreCmds == {CMD_PING, CMD_GET_VERSION, CMD_RESET, CMD_ENTER_BOOTLOADER}

UiCmds == {CMD_SHOW_PAGE, CMD_SET_TEXT, CMD_SET_VALUE, CMD_SET_VISIBLE,
           CMD_SET_ENABLED}

\* Command bytes that dm_protocol_dispatch has no case for.
UnknownCmds == {0, 254}

ReqCmds == CoreCmds \cup UiCmds \cup UnknownCmds

\* 0 and 1 are the pages and two labels, 2 is the button, 4 is the slider, 5 is
\* beyond both the pages and the widgets; as text 0 is a NUL, as a flag it is
\* false.
ReqBytes == {0, 1, 2, 4, 5}

ReqPayloads == SeqUpTo(ReqBytes, DM_MAX_PAYLOAD)

ReqSeqs == {16, 123}

\* The write_bytes calls made by k accepted SHOW_PAGE(0) requests with seq 0.
PageHistory(k) ==
    [i \in 1..(2 * k) |->
        IF i % 2 = 1 THEN dm_packet_frame(EVT_ACK, 0, NULL, 0)
        ELSE dm_packet_frame(EVT_PAGE_CHANGED, ((i \div 2) - 1) % 256, <<0>>, 1)]

\* The device has just booted, or has served two SHOW_PAGE(0) requests (which
\* takes the binder).
PriorPages == {0, 2}

\* The state after dm_init (and dm_binder_init if the binder is linked) and
\* scn.prior requests SHOW_PAGE(0) with seq 0, and the host about to send one
\* more request.
InitReq ==
    /\ scn \in {r \in [kind : {"req"}, cmd : ReqCmds, seq : ReqSeqs,
                       payload : ReqPayloads, prior : PriorPages, binder : BOOLEAN] :
                   r.binder \/ r.prior = 0}
    /\ stream = Encode(scn.cmd, scn.seq, scn.payload)
    /\ s_parser = IF scn.prior = 0 THEN dm_parser_init
                  ELSE [FeedAll(dm_parser_init, Encode(CMD_SHOW_PAGE, 0, <<0>>))
                            EXCEPT !.frames_ok = scn.prior]
    /\ s_seq_counter = scn.prior % 256
    /\ ui = ui_pages_init
    /\ tx = PageHistory(scn.prior)
    /\ plat_ok = TRUE
    /\ binder = scn.binder
    /\ lastbyte = -1
    /\ rx = <<>>
    /\ dispatched = <<>>
    /\ ndispatch = scn.prior
    /\ wr = -1
    /\ nfed = 0
    /\ NoCalls

SpecReq == InitReq /\ [][NextStream]_vars

\* The last byte of the request has just been fed and the request dispatched.
Served == stream # <<>> /\ stream' = <<>> /\ ndispatch' = ndispatch + 1

\* The frames written by the step.
Written == SubSeq(tx', Len(tx) + 1, Len(tx'))

\* C11: a valid frame whose command is none of the nine known ones is
\* dispatched and answered with exactly one frame, an EVT_NACK with the
\* request's seq_id and an empty payload; frames_ok goes up by one and the two
\* error counters stay as they are.
C11_UnknownCommandNack ==
    [][(scn.cmd \notin CoreCmds \cup UiCmds /\ stream # <<>> /\ stream' = <<>>) =>
           /\ Served
           /\ Len(Written) = 1
           /\ Written[1] = <<DM_START_BYTE, DM_PROTOCOL_VERSION, EVT_NACK, scn.seq, 0,
                             crc16_ccitt(<<DM_PROTOCOL_VERSION, EVT_NACK, scn.seq, 0>>)
                                 \div 256,
                             crc16_ccitt(<<DM_PROTOCOL_VERSION, EVT_NACK, scn.seq, 0>>)
                                 % 256>>
           /\ s_parser'.frames_ok = s_parser.frames_ok + 1
           /\ s_parser'.frames_crc_err = s_parser.frames_crc_err
           /\ s_parser'.frames_len_err = s_parser.frames_len_err
           /\ s_seq_counter' = s_seq_counter
           /\ ui' = ui]_vars

\* C11 witness: command 0xFE with a full payload was answered by one frame.
C11_Witness ==
    /\ scn.kind = "req"
    /\ scn.cmd = 254
    /\ Len(scn.payload) = DM_MAX_PAYLOAD
    /\ stream = <<>>
    /\ Len(tx) = 2 * scn.prior + 1
    /\ tx[Len(tx)][3] = EVT_NACK

\* A frame as it appears on the wire: start byte, version, command, seq,
\* length, payload, and the CRC of all but the start byte, high byte first.
WireFrame(cmd, seq, payload) ==
    <<DM_START_BYTE, DM_PROTOCOL_VERSION, cmd, seq, Len(payload)>> \o payload \o
    <<crc16_ccitt(<<DM_PROTOCOL_VERSION, cmd, seq, Len(payload)>> \o payload) \div 256,
      crc16_ccitt(<<DM_PROTOCOL_VERSION, cmd, seq, Len(payload)>> \o payload) % 256>>

\* C12: a SHOW_PAGE request with seq s for a page p the UI accepts makes the
\* device write exactly two frames: the whole EVT_ACK with seq s, then the
\* whole EVT_PAGE_CHANGED with payload [p] and the event counter's value from
\* before the request as its seq.  For every request, the first frame written
\* is its ACK or NACK and any further frame is an event.
C12_AckBeforeEvent ==
    [][Served =>
           /\ Len(Written) >= 1
           /\ Written[1][3] \in {EVT_ACK, EVT_NACK}
           /\ Written[1][4] = scn.seq
           /\ \A i \in 2..Len(Written) :
                  Written[i][3] \in {EVT_BUTTON_PRESSED, EVT_SLIDER_CHANGED,
                                     EVT_PAGE_CHANGED, EVT_TOUCH_EVENT}
           /\ (/\ binder
               /\ scn.cmd = CMD_SHOW_PAGE
               /\ Len(scn.payload) >= 1
               /\ ui_pages_show(ui, scn.payload[1]).ok) =>
                  /\ Written = <<WireFrame(EVT_ACK, scn.seq, <<>>),
                                 WireFrame(EVT_PAGE_CHANGED, s_seq_counter,
                                           <<scn.payload[1]>>)>>
                  /\ s_seq_counter' = (s_seq_counter + 1) % 256]_vars

\* C12 witness: after two earlier page changes, SHOW_PAGE(1) was acknowledged
\* and then announced with event seq 2.
C12_Witness ==
    /\ scn.kind = "req"
    /\ scn.cmd = CMD_SHOW_PAGE
    /\ scn.prior = 2
    /\ stream = <<>>
    /\ Len(tx) = 6
    /\ tx[5][3] = EVT_ACK
    /\ tx[6] = WireFrame(EVT_PAGE_CHANGED, 2, <<1>>)
    /\ ui.s_current_page = 1

(***************************************************************************)
(* Specification SpecPkt: an application calls the functions of dm_packet.h *)
(***************************************************************************)

\* The application makes at most MaxCalls calls.
MaxCalls == 3

\* The device has just booted, or has sent 255 button events (widget 2).
PriorEvents == {0, 255}

ButtonHistory(k) ==
    [i \in 1..k |-> dm_packet_frame(EVT_BUTTON_PRESSED, (i - 1) % 256, <<2>>, 1)]

\* The state after dm_init, dm_binder_init and scn.prior button events, with
\* nothing received.
InitPkt ==
    /\ scn \in [kind : {"pkt"}, prior : PriorEvents]
    /\ s_parser = dm_parser_init
    /\ s_seq_counter = scn.prior % 256
    /\ ui = ui_pages_init
    /\ tx = ButtonHistory(scn.prior)
    /\ plat_ok = TRUE
    /\ binder = TRUE
    /\ lastbyte = -1
    /\ rx = <<>>
    /\ dispatched = <<>>
    /\ ndispatch = 0
    /\ wr = -1
    /\ nfed = 0
    /\ stream = <<>>
    /\ NoCalls

\* The part of the device state a call can change.
Dev == [tx |-> tx, seq |-> s_seq_counter, ui |-> ui]

\* The plat arguments the caller may pass to its next call: every caller of
\* the encoder names the platform in each call (dm_packet.h), so a caller is
\* free to pass a usable platform in one call and NULL, or a platform without
\* write_bytes, in the next.  The callers of SpecPkt always pass the same one.
PlatArgs == IF scn.kind = "plat" THEN BOOLEAN ELSE {plat_ok}

\* The call op(args) was made with the platform plat_ok and left the device
\* state out.
Called(op, args, out) ==
    /\ call.nth < MaxCalls
    /\ tx' = out.tx
    /\ s_seq_counter' = out.seq
    /\ ui' = out.ui
    /\ call' = [op |-> op, args |-> args, nth |-> call.nth + 1]
    /\ plat_ok' \in PlatArgs
    /\ UNCHANGED <<s_parser, binder, lastbyte, rx, dispatched, ndispatch,
                   wr, nfed, stream, scn, acc>>

\* A caller's buffer of n bytes, all equal to fill.
Buf(n, fill) == [i \in 1..n |-> fill]

\* The (payload, payload_len) pairs passed to dm_packet_send: NULL with length
\* 0 (dm_packet.h: "may be NULL if payload_len == 0"), or a buffer of at least
\* payload_len bytes, with lengths up to, at, beyond the maximum and 255.
SendPayloads ==
    {<<NULL, 0>>, <<Buf(2, DM_START_BYTE), 1>>, <<Buf(DM_MAX_PAYLOAD, 1), DM_MAX_PAYLOAD>>,
     <<Buf(DM_MAX_PAYLOAD + 1, 2), DM_MAX_PAYLOAD + 1>>, <<Buf(255, 3), 255>>}

\* A command byte that is neither a response nor an event.
SendCmds == {66}

AppSend ==
    \E cmd \in SendCmds, seq \in HostSeqs, pl \in SendPayloads :
        Called("dm_packet_send", <<cmd, seq, pl[1], pl[2]>>,
               dm_packet_send(Dev, cmd, seq, pl[1], pl[2]))

AppAck ==
    \E seq \in HostSeqs,
       pl \in {<<NULL, 0>>, <<Buf(DM_MAX_PAYLOAD + 1, 2), DM_MAX_PAYLOAD + 1>>} :
        Called("dm_packet_send_ack", <<seq, pl[1], pl[2]>>,
               dm_packet_send_ack(Dev, seq, pl[1], pl[2]))

AppNack ==
    \E seq \in HostSeqs :
        Called("dm_packet_send_nack", <<seq>>, dm_packet_send_nack(Dev, seq))

AppButton ==
    \E widget_idx \in {0, 2} :
        Called("dm_packet_send_button_pressed", <<widget_idx>>,
               dm_packet_send_button_pressed(Dev, widget_idx))

AppSlider ==
    \E value \in {-1, 100} :
        Called("dm_packet_send_slider_changed", <<4, value>>,
               dm_packet_send_slider_changed(Dev, 4, value))

AppPage ==
    \E page_id \in {0, 1} :
        Called("dm_packet_send_page_changed", <<page_id>>,
               dm_packet_send_page_changed(Dev, page_id))

AppTouch ==
    \E xy \in {<<0, 0>>, <<-1, 319>>} :
        Called("dm_packet_send_touch_event", xy,
               dm_packet_send_touch_event(Dev, xy[1], xy[2]))

NextPkt == AppSend \/ AppAck \/ AppNack \/ AppButton \/ AppSlider \/ AppPage \/ AppTouch

SpecPkt == InitPkt /\ [][NextPkt]_vars

\* The event frames among the frames written since boot, in order.
EventFrames ==
    LET IsEvent(f) == f[3] \in {EVT_BUTTON_PRESSED, EVT_SLIDER_CHANGED,
                                EVT_PAGE_CHANGED, EVT_TOUCH_EVENT}
    IN  SelectSeq(tx, IsEvent)

\* C13: the seq_id fields of the event frames written since boot are 0, 1, 2,
\* ... modulo 256, whatever the events are and whatever responses are written
\* between them; the event counter equals the number of events modulo 256, so
\* no ACK or NACK consumes a value.
C13_EventSeqMonotonic ==
    \A ev \in {EventFrames} :
        /\ \A i \in 1..Len(ev) : ev[i][4] = (i - 1) % 256
        /\ s_seq_counter = Len(ev) % 256

\* C13 witness: the 256th event (seq 255), then a NACK, then an event with
\* seq 0.
C13_Witness ==
    /\ scn.kind = "pkt"
    /\ Len(tx) = 258
    /\ tx[256][3] = EVT_SLIDER_CHANGED
    /\ tx[256][4] = 255
    /\ tx[257][3] = EVT_NACK
    /\ tx[258][3] = EVT_TOUCH_EVENT
    /\ tx[258][4] = 0

\* The application has just called dm_packet_send.
SendStep == call'.nth = call.nth + 1 /\ call'.op = "dm_packet_send"

\* C14: a call dm_packet_send(cmd, seq, payload, n, plat) with a usable
\* platform makes exactly one write_bytes call, of 7 + min(n, DM_MAX_PAYLOAD)
\* bytes: 0xAA, the version, cmd, seq, min(n, DM_MAX_PAYLOAD), that many
\* payload bytes, and the CRC-16 of the bytes from the version to the last
\* payload byte, high byte first; the length written is at most
\* DM_HEADER_SIZE + DM_MAX_PAYLOAD + DM_CRC_SIZE + 1.
C14_EncoderOutput ==
    [][(SendStep /\ plat_ok) =>
           \A w \in {tx'[Len(tx')]} :
               LET cmd == call'.args[1]
                   seq == call'.args[2]
                   payload == call'.args[3]
                   n == call'.args[4]
                   k == IF n < DM_MAX_PAYLOAD THEN n ELSE DM_MAX_PAYLOAD
               IN  /\ Len(tx') = Len(tx) + 1
                   /\ Len(w) = 7 + k
                   /\ w = WireFrame(cmd, seq, SubSeq(payload, 1, k))
                   /\ Len(w) <= DM_HEADER_SIZE + DM_MAX_PAYLOAD + DM_CRC_SIZE + 1
                   /\ s_seq_counter' = s_seq_counter]_vars

\* C14 witness: a payload of exactly DM_MAX_PAYLOAD bytes was sent whole.
C14_Witness ==
    /\ call.op = "dm_packet_send"
    /\ call.args[4] = DM_MAX_PAYLOAD
    /\ Len(tx[Len(tx)]) = 7 + DM_MAX_PAYLOAD
    /\ tx[Len(tx)][5] = DM_MAX_PAYLOAD

\* C15: dm_packet_send with payload_len above DM_MAX_PAYLOAD writes a frame
\* whose LEN is DM_MAX_PAYLOAD, whose payload is the first DM_MAX_PAYLOAD
\* bytes of the caller's, and whose CRC is that of the clamped frame: a fresh
\* parser fed the frame delivers it, with payload_len = DM_MAX_PAYLOAD, and
\* counts one good frame and no error.
C15_EncoderClamps ==
    [][(SendStep /\ plat_ok /\ call'.args[4] > DM_MAX_PAYLOAD) =>
           \A w \in {tx'[Len(tx')]} :
               /\ Len(tx') = Len(tx) + 1
               /\ w[5] = DM_MAX_PAYLOAD
               /\ SubSeq(w, 6, 5 + DM_MAX_PAYLOAD)
                      = SubSeq(call'.args[3], 1, DM_MAX_PAYLOAD)
               /\ \A q \in {FeedAll(dm_parser_init, SubSeq(w, 1, Len(w) - 1))} :
                  \A r \in {dm_parser_feed(q, w[Len(w)])} :
                      /\ q.frames_ok = 0
                      /\ r.dispatch
                      /\ r.p.frames_ok = 1
                      /\ r.p.frames_crc_err = 0
                      /\ r.p.frames_len_err = 0
                      /\ r.p.state = PARSE_WAIT_START
                      /\ r.p.frame.command = call'.args[1]
                      /\ r.p.frame.seq_id = call'.args[2]
                      /\ r.p.frame.payload_len = DM_MAX_PAYLOAD
                      /\ r.p.frame.payload = SubSeq(call'.args[3], 1, DM_MAX_PAYLOAD)]_vars

\* C15 witness: a call with payload_len 255 wrote a frame with a payload of
\* DM_MAX_PAYLOAD bytes.
C15_Witness ==
    /\ call.op = "dm_packet_send"
    /\ call.args[4] = 255
    /\ Len(tx[Len(tx)]) = 7 + DM_MAX_PAYLOAD
    /\ tx[Len(tx)][5] = DM_MAX_PAYLOAD

CrcPairs(hi, lo) ==
    {<<hi, x>> : x \in 0..255} \cup {<<x, lo>> : x \in 0..255}
        \cup {<<177, 228>>, <<17, 231>>}

InitCrcErr ==
    /\ dm_init
    /\ NoCalls
    /\ \E c \in HostCmds, q \in HostSeqs, pl \in HostPayloads :
       \E good \in {Encode(c, q, pl)} :
       \E hl \in CrcPairs(good[Len(good) - 1], good[Len(good)]) :
           scn = [kind |-> "crcerr", cmd |-> c, seq |-> q, payload |-> pl,
                  bytes |-> SubSeq(good, 1, Len(good) - 2) \o hl]
    /\ stream = scn.bytes

SpecCrcErr == InitCrcErr /\ [][NextStream]_vars

\* C17 as claimed: the seven bytes AA 01 01 7B 00 B1 E4 fed into a freshly
\* initialised core make it write exactly AA 01 F0 7B 00 E3 A5.
C17_S1AsWritten ==
    (scn.bytes = <<170, 1, 1, 123, 0, 177, 228>> /\ stream = <<>>) =>
        tx = << <<170, 1, 240, 123, 0, 227, 165>> >>

\* C17 amended: with the CRC values the algorithm gives, the seven bytes
\* AA 01 01 7B 00 11 E7 fed into a freshly initialised core make it write
\* exactly AA 01 F0 7B 00 C5 85.
C17_S1BitExact ==
    (scn.bytes = <<170, 1, 1, 123, 0, 17, 231>> /\ stream = <<>>) =>
        tx = << <<170, 1, 240, 123, 0, 197, 133>> >>

\* C17 witness: the PING of S1 with CRC 11 E7 was fed whole and answered.
C17_Witness ==
    /\ scn.kind = "crcerr"
    /\ scn.bytes = <<170, 1, 1, 123, 0, 17, 231>>
    /\ stream = <<>>
    /\ s_parser.frames_ok = 1
    /\ Len(tx) = 1

\* The PING of S1 with its last byte altered.
IsS1Altered ==
    /\ SubSeq(scn.bytes, 1, 6) = <<170, 1, 1, 123, 0, 17>>
    /\ scn.bytes[7] # 231

\* C19: when the two CRC bytes received differ from the running CRC as the
\* low byte arrives, frames_crc_err goes up by exactly one, frames_ok and
\* frames_len_err stay, nothing is dispatched, nothing is written to the host
\* and the parser is back in WAIT_START.  The PING of S1 with its last byte
\* altered ends with frames_ok = 0, frames_crc_err = 1 and no output.
C19_CrcMismatchSilent ==
    [][/\ (/\ s_parser.state = PARSE_CRC_LOW
           /\ stream # <<>>
           /\ stream' = Tail(stream)
           /\ s_parser.crc_high * 256 + Head(stream) # s_parser.running_crc) =>
              /\ s_parser'.frames_crc_err = s_parser.frames_crc_err + 1
              /\ s_parser'.frames_ok = s_parser.frames_ok
              /\ s_parser'.frames_len_err = s_parser.frames_len_err
              /\ s_parser'.state = PARSE_WAIT_START
              /\ ndispatch' = ndispatch
              /\ dispatched' = <<>>
              /\ tx' = tx
              /\ s_seq_counter' = s_seq_counter
              /\ ui' = ui
       /\ (IsS1Altered /\ stream' = <<>>) =>
              /\ s_parser'.frames_ok = 0
              /\ s_parser'.frames_crc_err = 1
              /\ s_parser'.frames_len_err = 0
              /\ tx' = <<>>]_vars

\* C19 witness: the PING of S1 with another last byte was fed whole, counted
\* as a CRC error and not answered.
C19_Witness ==
    /\ scn.kind = "crcerr"
    /\ IsS1Altered
    /\ stream = <<>>
    /\ s_parser.frames_crc_err = 1
    /\ s_parser.state = PARSE_WAIT_START
    /\ tx = <<>>

(***************************************************************************)
(* Specification SpecCrc: a caller of crc16.h                               *)
(***************************************************************************)

\* The accumulators a caller starts from: the seed 0xFFFF, zero, the
\* polynomial, and each single bit.
CrcSeeds == {65535, 0, CRC16_POLY} \cup {2 ^ i : i \in 0..15}

\* "123456789" in ASCII.
CheckString == <<49, 50, 51, 52, 53, 54, 55, 56, 57>>

\* The data: nothing, the check string, every single byte, and every byte
\* followed by its complement.
CrcData ==
    {<<>>, CheckString} \cup {<<b>> : b \in Byte} \cup {<<b, 255 - b>> : b \in Byte}

InitCrc ==
    /\ dm_init
    /\ scn \in [kind : {"crc"}, seed : CrcSeeds, data : CrcData]
    /\ stream = scn.data
    /\ acc = scn.seed
    /\ call = [op |-> "none", args |-> <<>>, nth |-> 0]

\* crc = crc16_update(crc, *data++), as crc16_ccitt and the parser do it.
Crc16Update ==
    /\ stream # <<>>
    /\ call.op # "crc16_ccitt"
    /\ acc' = crc16_update(acc, Head(stream))
    /\ stream' = Tail(stream)
    /\ call' = [op |-> "crc16_update", args |-> <<acc, Head(stream)>>,
                nth |-> call.nth + 1]
    /\ UNCHANGED <<s_parser, s_seq_counter, ui, tx, plat_ok, binder, lastbyte, rx,
                   dispatched, ndispatch, wr, nfed, scn>>

\* crc = crc16_ccitt(data, len) on the whole data.
Crc16Ccitt ==
    /\ call.nth = 0
    /\ acc' = crc16_ccitt(stream)
    /\ stream' = <<>>
    /\ call' = [op |-> "crc16_ccitt", args |-> <<stream>>, nth |-> 1]
    /\ UNCHANGED <<s_parser, s_seq_counter, ui, tx, plat_ok, binder, lastbyte, rx,
                   dispatched, ndispatch, wr, nfed, scn>>

NextCrc == Crc16Update \/ Crc16Ccitt

SpecCrc == InitCrc /\ [][NextCrc]_vars

\* The CRC step of the claim, on sets of bit positions.
Bits16(x) == {i \in 0..15 : (x \div (2 ^ i)) % 2 = 1}

RECURSIVE FromBits(_)
FromBits(S) ==
    IF S = {} THEN 0
    ELSE LET i == CHOOSE j \in S : TRUE IN (2 ^ i) + FromBits(S \ {i})

Xor16(a, b) == FromBits((Bits16(a) \ Bits16(b)) \cup (Bits16(b) \ Bits16(a)))

\* If bit 15 is set then (crc << 1) XOR 0x1021 else crc << 1, in 16 bits.
StepRef(c) ==
    IF 15 \in Bits16(c) THEN Xor16((c * 2) % 65536, 4129) ELSE (c * 2) % 65536

\* XOR b << 8 into c, then eight steps.
UpdateRef(c, b) ==
    StepRef(StepRef(StepRef(StepRef(StepRef(StepRef(StepRef(StepRef(
        Xor16(c, b * 256)))))))))

RECURSIVE FoldRef(_, _)
FoldRef(c, data) ==
    IF data = <<>> THEN c ELSE FoldRef(UpdateRef(c, Head(data)), Tail(data))

\* C18: crc16_update(crc, b) is crc with b << 8 XORed in and then eight times
\* the step "if bit 15 is set then (crc << 1) XOR 0x1021 else crc << 1", in
\* 16-bit arithmetic; crc16_ccitt is that from 0xFFFF over the data with no
\* final XOR: 0x29B1 for "123456789" and 0xFFFF for no data.
C18_CrcCorrect ==
    [][/\ (call'.nth = call.nth + 1 /\ call'.op = "crc16_update") =>
              /\ acc' = UpdateRef(call'.args[1], call'.args[2])
              /\ acc' \in 0..65535
       /\ (call'.nth = call.nth + 1 /\ call'.op = "crc16_ccitt") =>
              /\ acc' = FoldRef(65535, call'.args[1])
              /\ call'.args[1] = CheckString => acc' = 10673
              /\ call'.args[1] = <<>> => acc' = 65535]_vars

\* C18 witness: crc16_ccitt was applied to "123456789" and gave 0x29B1.
C18_Witness ==
    /\ scn.kind = "crc"
    /\ call.op = "crc16_ccitt"
    /\ call.args[1] = CheckString
    /\ acc = 10673

\* The least payload_len each binder handler accepts.
MinLen(cmd) ==
    CASE cmd = CMD_SHOW_PAGE -> 1
      [] cmd = CMD_SET_TEXT -> 2
      [] cmd = CMD_SET_VALUE -> 3
      [] cmd = CMD_SET_VISIBLE -> 2
      [] cmd = CMD_SET_ENABLED -> 2

\* C20: with the binder installed, a SHOW_PAGE with payload_len < 1, a
\* SET_TEXT, SET_VISIBLE or SET_ENABLED with payload_len < 2 and a SET_VALUE
\* with payload_len < 3 are each answered with exactly one frame, an EVT_NACK
\* with the request's seq; the current page and every widget stay as they
\* were and no event is sent.
C20_MalformedPayloadNack ==
    [][(/\ stream # <<>>
        /\ stream' = <<>>
        /\ binder
        /\ scn.cmd \in UiCmds
        /\ Len(scn.payload) < MinLen(scn.cmd)) =>
           /\ Served
           /\ Written = <<WireFrame(EVT_NACK, scn.seq, <<>>)>>
           /\ ui' = ui
           /\ s_seq_counter' = s_seq_counter]_vars

\* C20 witness: with the binder, a SET_VALUE for the slider with two payload
\* bytes was refused and the slider kept its value.
C20_Witness ==
    /\ scn.kind = "req"
    /\ binder
    /\ scn.cmd = CMD_SET_VALUE
    /\ Len(scn.payload) = 2
    /\ scn.payload[1] = 4
    /\ stream = <<>>
    /\ tx[Len(tx)][3] = EVT_NACK
    /\ ui = ui_pages_init

\* C21: with the binder installed, a SET_VISIBLE or SET_ENABLED request with
\* at least two payload bytes is answered with exactly one frame, an EVT_ACK
\* with the request's seq, whatever the widget index.  For an index inside
\* the registry the widget's hidden (disabled) flag becomes the negation of
\* "flag byte is nonzero" and nothing else changes; for an index outside the
\* registry the UI state stays as it was.
C21_VisibleEnabledAlwaysAck ==
    [][(/\ stream # <<>>
        /\ stream' = <<>>
        /\ binder
        /\ scn.cmd \in {CMD_SET_VISIBLE, CMD_SET_ENABLED}
        /\ Len(scn.payload) >= 2) =>
           /\ Served
           /\ Written = <<WireFrame(EVT_ACK, scn.seq, <<>>)>>
           /\ s_seq_counter' = s_seq_counter
           /\ IF scn.payload[1] < s_widget_count
              THEN IF scn.cmd = CMD_SET_VISIBLE
                   THEN ui' = [ui EXCEPT !.hidden[scn.payload[1]] = (scn.payload[2] = 0)]
                   ELSE ui' = [ui EXCEPT !.disabled[scn.payload[1]] = (scn.payload[2] = 0)]
              ELSE ui' = ui]_vars

\* C21 witness: SET_VISIBLE for index 5, beyond the five registered widgets,
\* was acknowledged and no widget changed.
C21_Witness ==
    /\ scn.kind = "req"
    /\ binder
    /\ scn.cmd = CMD_SET_VISIBLE
    /\ scn.payload = <<5, 0>>
    /\ stream = <<>>
    /\ tx[Len(tx)] = WireFrame(EVT_ACK, scn.seq, <<>>)
    /\ ui = ui_pages_init

(***************************************************************************)
(* Specification SpecText: SET_TEXT frames of a default build               *)
(***************************************************************************)

\* DM_MAX_PAYLOAD as dm_config.h defines it when the build does not override
\* it: the payload buffer of a frame is this long, which is longer than the
\* text buffer of dm_handle_set_text.
DM_MAX_PAYLOAD_DEFAULT == 128

\* The payload buffers the host fills: the widget index, then text bytes that
\* are all non-zero and differ from their neighbours, or text with a NUL at
\* every third byte.  Bytes beyond payload_len are left from earlier frames.
TextBuffers(idx) ==
    { [i \in 1..DM_MAX_PAYLOAD_DEFAULT |->
          IF i = 1 THEN idx
          ELSE IF nul THEN i % 3 ELSE 1 + (i % 255)] : nul \in BOOLEAN }

\* Title label, button, slider, and an index outside the registry.
TextWidgets == {0, 2, 4, 5}

\* The state after dm_init and dm_binder_init when the parser of a default
\* build is about to deliver a valid SET_TEXT frame of any payload_len.
InitText ==
    /\ dm_init
    /\ NoCalls
    /\ stream = <<>>
    /\ \E idx \in TextWidgets, len \in 0..DM_MAX_PAYLOAD_DEFAULT, q \in ReqSeqs :
       \E buf \in TextBuffers(idx) :
           scn = [kind |-> "text", seq |-> q, len |-> len, payload |-> buf]

\* The frame of the scenario as dm_parser_feed leaves it in p->frame.
TextFrame ==
    [version |-> DM_PROTOCOL_VERSION, command |-> CMD_SET_TEXT,
     seq_id |-> scn.seq, payload_len |-> scn.len, payload |-> scn.payload]

\* dm_parser_feed's call dm_protocol_dispatch(&p->frame, p->platform) for the
\* frame of the scenario; call records the ui_pages_set_text call it makes.
DispatchText ==
    /\ ndispatch = 0
    /\ \E out \in {dm_protocol_dispatch([tx |-> tx, seq |-> s_seq_counter, ui |-> ui],
                                         TextFrame)} :
           /\ tx' = out.tx
           /\ s_seq_counter' = out.seq
           /\ ui' = out.ui
    /\ call' = IF scn.len < 2 THEN call
               ELSE [op |-> "ui_pages_set_text",
                     args |-> <<scn.payload[1], set_text_copy(scn.payload, scn.len)>>,
                     nth |-> call.nth + 1]
    /\ dispatched' = <<TextFrame>>
    /\ ndispatch' = ndispatch + 1
    /\ UNCHANGED <<s_parser, plat_ok, binder, lastbyte, rx, wr, nfed, stream, scn, acc>>

SpecText == InitText /\ [][DispatchText]_vars

\* C22: for every SET_TEXT frame with 2 <= payload_len <= DM_MAX_PAYLOAD the
\* handler stores min(payload_len - 1, DM_MAX_TEXT_LEN - 1) bytes equal to
\* payload[1..] in order and then a NUL, all inside text[DM_MAX_TEXT_LEN],
\* and hands that buffer and the index payload[0] to ui_pages_set_text; a
\* label or button shows the buffer's bytes up to its first NUL.
C22_SetTextTruncation ==
    [][(ndispatch' = ndispatch + 1 /\ scn.len >= 2) =>
           /\ call'.op = "ui_pages_set_text"
           /\ call'.args[1] = scn.payload[1]
           /\ \E n \in {IF scn.len - 1 < DM_MAX_TEXT_LEN - 1 THEN scn.len - 1
                        ELSE DM_MAX_TEXT_LEN - 1} :
              \E text \in {call'.args[2]} :
                  /\ Len(text) = n + 1
                  /\ \A i \in 1..n : text[i] = scn.payload[i + 1]
                  /\ text[n + 1] = 0
                  /\ Len(text) <= DM_MAX_TEXT_LEN
                  /\ scn.payload[1] \in {0, 2} =>
                         /\ ui'.text[scn.payload[1]] = CStr(text)
                         /\ tx' = <<WireFrame(EVT_ACK, scn.seq, <<>>)>>]_vars

\* C22 witness: a SET_TEXT for the title label with a payload of
\* DM_MAX_PAYLOAD bytes, none of them NUL, was acknowledged and the label
\* shows the first DM_MAX_TEXT_LEN - 1 bytes of the text.
C22_Witness ==
    /\ scn.kind = "text"
    /\ scn.len = DM_MAX_PAYLOAD_DEFAULT
    /\ scn.payload[1] = 0
    /\ scn.payload[3] # 0
    /\ ndispatch = 1
    /\ Len(call.args[2]) = DM_MAX_TEXT_LEN
    /\ ui.text[0] = SubSeq(scn.payload, 2, DM_MAX_TEXT_LEN)
    /\ tx = <<WireFrame(EVT_ACK, scn.seq, <<>>)>>

\* C23: with the binder installed, a SET_TEXT (payload_len >= 2) or SET_VALUE
\* (payload_len >= 3) request is answered with exactly one frame carrying the
\* request's seq.  It is an EVT_NACK, and no widget changes, when the index
\* is outside the registry, when SET_VALUE addresses a widget that is not a
\* slider and when SET_TEXT addresses a slider; it is an EVT_ACK for SET_TEXT
\* on a label or a button and for SET_VALUE on a slider.
C23_UiFailureNack ==
    [][(/\ stream # <<>>
        /\ stream' = <<>>
        /\ binder
        /\ scn.cmd \in {CMD_SET_TEXT, CMD_SET_VALUE}
        /\ Len(scn.payload) >= MinLen(scn.cmd)) =>
           /\ Served
           /\ s_seq_counter' = s_seq_counter
           /\ IF /\ scn.payload[1] < s_widget_count
                 /\ scn.cmd = CMD_SET_TEXT =>
                        s_widgets[scn.payload[1]] \in {WIDGET_LABEL, WIDGET_BUTTON}
                 /\ scn.cmd = CMD_SET_VALUE =>
                        s_widgets[scn.payload[1]] = WIDGET_SLIDER
              THEN Written = <<WireFrame(EVT_ACK, scn.seq, <<>>)>>
              ELSE /\ Written = <<WireFrame(EVT_NACK, scn.seq, <<>>)>>
                   /\ ui' = ui]_vars

\* C23 witness: SET_TEXT "\x01" addressed to the slider was refused with one
\* NACK and every widget is as ui_pages_init left it.
C23_Witness ==
    /\ scn.kind = "req"
    /\ binder
    /\ scn.prior = 0
    /\ scn.cmd = CMD_SET_TEXT
    /\ scn.payload = <<4, 1>>
    /\ stream = <<>>
    /\ tx = <<WireFrame(EVT_NACK, scn.seq, <<>>)>>
    /\ ui = ui_pages_init

(***************************************************************************)
(* Specification SpecUi: the user operates the widgets                      *)
(***************************************************************************)

\* The user clicks the OK button (widget 2, the only object btn_event_cb is
\* attached to) and the toolkit runs the callback.
UiClick ==
    /\ call.nth < MaxCalls
    /\ \E out \in {btn_event_cb(Dev, 2)} :
           /\ tx' = out.tx
           /\ s_seq_counter' = out.seq
           /\ ui' = out.ui
    /\ call' = [op |-> "btn_event_cb", args |-> <<2>>, nth |-> call.nth + 1]
    /\ UNCHANGED <<s_parser, plat_ok, binder, lastbyte, rx, dispatched, ndispatch,
                   wr, nfed, stream, scn, acc>>

\* The user drags the slider (widget 4, range 0..100) to another value and the
\* toolkit runs slider_event_cb.
UiSlide ==
    /\ call.nth < MaxCalls
    /\ \E v \in (0..100) \ {ui.value} :
       \E out \in {slider_event_cb([Dev EXCEPT !.ui.value = v], 4)} :
           /\ tx' = out.tx
           /\ s_seq_counter' = out.seq
           /\ ui' = out.ui
           /\ call' = [op |-> "slider_event_cb", args |-> <<4, v>>,
                       nth |-> call.nth + 1]
    /\ UNCHANGED <<s_parser, plat_ok, binder, lastbyte, rx, dispatched, ndispatch,
                   wr, nfed, stream, scn, acc>>

NextUi == UiClick \/ UiSlide

SpecUi == Init /\ [][NextUi]_vars

\* C24: after dm_init and dm_binder_init, every click on the registered
\* button transmits exactly one EVT_BUTTON_PRESSED frame whose payload is the
\* button's widget index, and every value change of the registered slider
\* transmits exactly one EVT_SLIDER_CHANGED frame whose payload is the
\* slider's index and the value as big-endian int16; each frame carries the
\* event counter's value from before the event.
C24_UiEventsReachHost ==
    [][(call'.nth = call.nth + 1) =>
           Written = <<IF call'.op = "btn_event_cb"
                       THEN WireFrame(EVT_BUTTON_PRESSED, s_seq_counter,
                                      <<call'.args[1]>>)
                       ELSE WireFrame(EVT_SLIDER_CHANGED, s_seq_counter,
                                      <<call'.args[1], call'.args[2] \div 256,
                                        call'.args[2] % 256>>)>>]_vars

\* C24, what the code does: no click and no value change transmits anything,
\* and the event counter stays 0.
C24_UiEventsSilent ==
    [][(call'.nth = call.nth + 1) =>
           /\ tx' = tx
           /\ s_seq_counter' = s_seq_counter]_vars

\* C24 witness: the button was clicked and the slider dragged to 100, and
\* nothing has been written.
C24_Witness ==
    /\ call.op = "slider_event_cb"
    /\ call.nth = MaxCalls
    /\ ui.value = 100
    /\ tx = <<>>
    /\ s_seq_counter = 0

(***************************************************************************)
(* Specification SpecSeq: several encoded frames back to back               *)
(***************************************************************************)

\* The host sends at most MaxFrames frames.
MaxFrames == 3

\* The frames the host chooses from: SHOW_PAGE and an unknown command whose
\* code is the start byte, seq 0x10 and 0xAA, without payload or with the
\* payload <<1, 0xAA>> (page 1, followed by a start byte).
SeqFrames ==
    [cmd : {CMD_SHOW_PAGE, DM_START_BYTE}, seq : {16, DM_START_BYTE},
     payload : {<<>>, <<1, DM_START_BYTE>>}]

\* encode(F1) encode(F2) ... encode(Fn), nothing in between.
RECURSIVE EncodeAll(_)
EncodeAll(fs) ==
    IF fs = <<>> THEN <<>>
    ELSE Encode(fs[1].cmd, fs[1].seq, fs[1].payload) \o EncodeAll(Tail(fs))

InitSeq ==
    /\ dm_init
    /\ NoCalls
    /\ \E n \in 1..MaxFrames : \E fs \in [1..n -> SeqFrames] :
           /\ scn = [kind |-> "seq", frames |-> fs]
           /\ stream = EncodeAll(fs)

SpecSeq == InitSeq /\ [][NextStream]_vars

\* The number of bytes of encode(F1) ... encode(Fn).
RECURSIVE WireLen(_)
WireLen(fs) ==
    IF fs = <<>> THEN 0
    ELSE DM_HEADER_SIZE + Len(fs[1].payload) + DM_CRC_SIZE + WireLen(Tail(fs))

\* The number of frames among fs whose last byte is among the first nbytes.
RECURSIVE FramesFed(_, _)
FramesFed(fs, nbytes) ==
    IF fs = <<>> \/ nbytes < DM_HEADER_SIZE + Len(fs[1].payload) + DM_CRC_SIZE THEN 0
    ELSE 1 + FramesFed(Tail(fs),
                       nbytes - (DM_HEADER_SIZE + Len(fs[1].payload) + DM_CRC_SIZE))

\* C25: while encode(F1) ... encode(Fn) is fed to a freshly initialised
\* parser, after every byte the number of dispatcher calls and frames_ok equal
\* the number k of frames whose final CRC byte has been fed and no error is
\* counted; the byte that completes Fk, and no other byte, hands exactly one
\* frame to the dispatcher, and it is Fk; the ACK/NACK frames written so far
\* are k, the i-th carrying the seq of Fi (ACK for an accepted SHOW_PAGE, NACK
\* otherwise).
C25_InOrderDelivery ==
    scn.kind = "seq" =>
    \E fed \in {WireLen(scn.frames) - Len(stream)} :
    \E k \in {FramesFed(scn.frames, fed)} :
    \E resp \in {SelectSeq(tx, LAMBDA w : w[3] \in {EVT_ACK, EVT_NACK})} :
        /\ ndispatch = k
        /\ s_parser.frames_ok = k
        /\ s_parser.frames_crc_err = 0
        /\ s_parser.frames_len_err = 0
        /\ (stream = <<>>) => (k = Len(scn.frames))
        /\ IF k > 0 /\ FramesFed(scn.frames, fed - 1) = k - 1
           THEN /\ Len(dispatched) = 1
                /\ dispatched[1].version = DM_PROTOCOL_VERSION
                /\ dispatched[1].command = scn.frames[k].cmd
                /\ dispatched[1].seq_id = scn.frames[k].seq
                /\ dispatched[1].payload_len = Len(scn.frames[k].payload)
                /\ SubSeq(dispatched[1].payload, 1, Len(scn.frames[k].payload))
                       = scn.frames[k].payload
           ELSE dispatched = <<>>
        /\ Len(resp) = k
        /\ \A i \in 1..k :
               /\ resp[i][4] = scn.frames[i].seq
               /\ resp[i][3] = IF /\ scn.frames[i].cmd = CMD_SHOW_PAGE
                                  /\ scn.frames[i].payload # <<>>
                               THEN EVT_ACK ELSE EVT_NACK

\* C25 witness: three frames with different answers were fed, each with a
\* payload, and the three answers are in the output in the order of the
\* requests, the page change of the first and third after their ACK.
C25_Witness ==
    /\ scn.kind = "seq"
    /\ Len(scn.frames) = MaxFrames
    /\ stream = <<>>
    /\ scn.frames[1] = [cmd |-> CMD_SHOW_PAGE, seq |-> 16, payload |-> <<1, DM_START_BYTE>>]
    /\ scn.frames[2] = [cmd |-> DM_START_BYTE, seq |-> DM_START_BYTE,
                        payload |-> <<1, DM_START_BYTE>>]
    /\ scn.frames[MaxFrames].cmd = CMD_SHOW_PAGE
    /\ scn.frames[MaxFrames].payload # <<>>
    /\ s_parser.frames_ok = MaxFrames
    /\ Len(tx) >= 5
    /\ tx[1][3] = EVT_ACK
    /\ tx[2][3] = EVT_PAGE_CHANGED
    /\ tx[3] = WireFrame(EVT_NACK, DM_START_BYTE, <<>>)
    /\ tx[Len(tx)][3] = EVT_PAGE_CHANGED

(***************************************************************************)
(* Specification SpecIsr: bytes arrive in the receive interrupt             *)
(***************************************************************************)

\* dm_process(), called from the main loop: it has no effect on the module's
\* state ((void)s_platform); call records that it ran.
dm_process ==
    /\ call.nth < MaxCalls
    /\ call' = [op |-> "dm_process", args |-> <<>>, nth |-> call.nth + 1]
    /\ UNCHANGED <<s_parser, s_seq_counter, ui, tx, plat_ok, binder, lastbyte, rx,
                   dispatched, ndispatch, wr, nfed, stream, scn, acc>>

\* The board calls dm_receive_byte from its receive interrupt handler, one
\* call per byte of the host's stream (HostStream), and dm_process from the
\* main loop; the interrupt may come between any two iterations.
NextIsr == HostStream \/ dm_process

SpecIsr == InitSeq /\ [][NextIsr]_vars

\* A step of the main context, and a step of the interrupt context.
MainStep == call'.nth = call.nth + 1 /\ call'.op = "dm_process"

IsrStep == stream # <<>> /\ stream' = Tail(stream) /\ call' = call

\* C26: with dm_receive_byte called from the interrupt and dm_process from
\* the main loop, every step in which the dispatcher runs, a UI operation
\* changes the UI state, the event counter changes or write_bytes is called
\* is a step of the main context.
C26_HandlersInMainContext ==
    [][(\/ ndispatch' # ndispatch
        \/ ui' # ui
        \/ s_seq_counter' # s_seq_counter
        \/ tx' # tx) => MainStep]_vars

\* C26, what the code does: the dispatcher, the handlers, the UI operations
\* and the encoder run inside the dm_receive_byte call that feeds the last
\* CRC byte, in the caller's context, and dm_process changes nothing.
C26_DispatchInReceiveContext ==
    [][/\ (\/ ndispatch' # ndispatch
           \/ ui' # ui
           \/ s_seq_counter' # s_seq_counter
           \/ tx' # tx) => IsrStep
       /\ MainStep => UNCHANGED <<s_parser, s_seq_counter, ui, tx, ndispatch>>]_vars

\* C26 witness: the main loop has run dm_process, and a SHOW_PAGE fed from
\* the interrupt has changed the page, sent its ACK and its event and moved
\* the event counter.
C26_Witness ==
    /\ scn.kind = "seq"
    /\ call.op = "dm_process"
    /\ lastbyte # -1
    /\ ndispatch = 1
    /\ ui.s_current_page = 1
    /\ s_seq_counter = 1
    /\ Len(tx) = 2

(***************************************************************************)
(* Specification SpecStep: any byte in any parser state                     *)
(***************************************************************************)

\* The host sends nothing or the request SHOW_PAGE(1), then the first bytes
\* of a valid frame, of every payload length and cut at every position (none,
\* some or all of the frame), and then one byte of any value.
InitStep ==
    /\ dm_init
    /\ NoCalls
    /\ \E n \in 0..DM_MAX_PAYLOAD, b \in Byte :
       \E first \in {<<>>, Encode(CMD_SHOW_PAGE, 16, <<1>>)} :
       \E whole \in {Encode(CMD_PING, 123, Buf(n, DM_START_BYTE))} :
       \E cut \in 0..Len(whole) :
           /\ scn = [kind |-> "step", first |-> first,
                     pre |-> SubSeq(whole, 1, cut), byte |-> b]
           /\ stream = first \o SubSeq(whole, 1, cut) \o <<b>>

SpecStep == InitStep /\ [][NextStream]_vars

\* C27: for every parser state and every byte fed, the next state is the one
\* the transition diagram gives: WAIT_START to VERSION on 0xAA and to itself
\* otherwise; VERSION to COMMAND, COMMAND to SEQ_ID, SEQ_ID to LENGTH on any
\* byte; LENGTH to WAIT_START on a byte above DM_MAX_PAYLOAD, to CRC_HIGH on
\* 0, to PAYLOAD otherwise; PAYLOAD to itself until as many payload bytes as
\* the length byte said have been fed, then to CRC_HIGH; CRC_HIGH to CRC_LOW
\* and CRC_LOW to WAIT_START on any byte.  rx holds the bytes of the frame
\* fed so far after its start byte, so rx[4] is the length byte.
C27_TransitionDiagram ==
    [][stream # <<>> =>
           \E b \in {Head(stream)} :
               s_parser'.state =
                   CASE s_parser.state = PARSE_WAIT_START ->
                            IF b = DM_START_BYTE THEN PARSE_VERSION
                            ELSE PARSE_WAIT_START
                     [] s_parser.state = PARSE_VERSION -> PARSE_COMMAND
                     [] s_parser.state = PARSE_COMMAND -> PARSE_SEQ_ID
                     [] s_parser.state = PARSE_SEQ_ID -> PARSE_LENGTH
                     [] s_parser.state = PARSE_LENGTH ->
                            IF b > DM_MAX_PAYLOAD THEN PARSE_WAIT_START
                            ELSE IF b = 0 THEN PARSE_CRC_HIGH
                            ELSE PARSE_PAYLOAD
                     [] s_parser.state = PARSE_PAYLOAD ->
                            IF Len(rx) - 4 + 1 >= rx[4] THEN PARSE_CRC_HIGH
                            ELSE PARSE_PAYLOAD
                     [] s_parser.state = PARSE_CRC_HIGH -> PARSE_CRC_LOW
                     [] s_parser.state = PARSE_CRC_LOW -> PARSE_WAIT_START]_vars

\* C27 witness: after the header and all but the last byte of a payload of
\* DM_MAX_PAYLOAD bytes, the byte 0x00 completed the payload and the parser
\* expects the high CRC byte.
C27_Witness ==
    /\ scn.kind = "step"
    /\ Len(scn.pre) = DM_HEADER_SIZE + DM_MAX_PAYLOAD - 1
    /\ scn.byte = 0
    /\ stream = <<>>
    /\ s_parser.state = PARSE_CRC_HIGH
    /\ s_parser.frame.payload[DM_MAX_PAYLOAD] = 0

\* C28: in every reachable state in which the parser is not in WAIT_START,
\* running_crc is the CRC16-CCITT (seed 0xFFFF) of the bytes fed after the
\* start byte of the current frame up to the last header or payload byte fed:
\* all of rx, or, once the high CRC byte has been fed, rx without it.  The
\* start byte and the received CRC bytes are never part of it.
C28_CrcCoverage ==
    s_parser.state # PARSE_WAIT_START =>
        s_parser.running_crc =
            crc16_ccitt(IF s_parser.state = PARSE_CRC_LOW
                        THEN SubSeq(rx, 1, Len(rx) - 1) ELSE rx)

\* C28 witness: after an earlier frame, a frame with a full payload has been
\* fed up to its high CRC byte, which matched; the running CRC is that of the
\* header and payload.
C28_Witness ==
    /\ scn.kind = "step"
    /\ s_parser.frames_ok = 1
    /\ s_parser.state = PARSE_CRC_LOW
    /\ s_parser.frame.payload_len = DM_MAX_PAYLOAD
    /\ Len(rx) = DM_HEADER_SIZE + DM_MAX_PAYLOAD
    /\ s_parser.crc_high = s_parser.running_crc \div 256
    /\ s_parser.running_crc = crc16_ccitt(SubSeq(rx, 1, Len(rx) - 1))
    /\ s_parser.running_crc # crc16_ccitt(rx)

\* C29: in every reachable state in which the parser waits for a start byte
\* (after dm_parser_init, after a delivered frame, after a CRC mismatch and
\* after a length overflow) payload_index is 0, running_crc is 0xFFFF and
\* crc_high is 0; parser_reset leaves the three counters as they are; and no
\* step lowers a counter, so that only dm_parser_init makes them zero.
C29_ResetInvariant ==
    /\ [](/\ s_parser.state = PARSE_WAIT_START =>
                 /\ s_parser.payload_index = 0
                 /\ s_parser.running_crc = 65535
                 /\ s_parser.crc_high = 0
          /\ parser_reset(s_parser).frames_ok = s_parser.frames_ok
          /\ parser_reset(s_parser).frames_crc_err = s_parser.frames_crc_err
          /\ parser_reset(s_parser).frames_len_err = s_parser.frames_len_err)
    /\ [][/\ s_parser'.frames_ok >= s_parser.frames_ok
          /\ s_parser'.frames_crc_err >= s_parser.frames_crc_err
          /\ s_parser'.frames_len_err >= s_parser.frames_len_err
          /\ s_parser'.frames_ok + s_parser'.frames_crc_err + s_parser'.frames_len_err
                 <= s_parser.frames_ok + s_parser.frames_crc_err
                        + s_parser.frames_len_err + 1]_vars

\* C29 witness: one frame was delivered and the next was dropped for its CRC;
\* the parser waits for a start byte with its working fields reset and both
\* counts kept.
C29_Witness ==
    /\ scn.kind = "step"
    /\ stream = <<>>
    /\ s_parser.state = PARSE_WAIT_START
    /\ s_parser.frames_ok = 1
    /\ s_parser.frames_crc_err = 1
    /\ s_parser.payload_index = 0
    /\ s_parser.running_crc = 65535
    /\ s_parser.crc_high = 0

\* C30: with the binder installed and a usable platform, every frame
\* delivered to the dispatcher, whatever its command and payload, makes the
\* device write exactly one frame that is an EVT_ACK or an EVT_NACK, and that
\* frame carries the delivered frame's seq_id; the only other frame written
\* is one EVT_PAGE_CHANGED, and only when a SHOW_PAGE for an existing page
\* was acknowledged.
C30_OneResponsePerRequest ==
    [][(ndispatch' = ndispatch + 1 /\ binder /\ plat_ok) =>
           \E w \in {Written} :
           \E resp \in {SelectSeq(w, LAMBDA f : f[3] \in {EVT_ACK, EVT_NACK})} :
               /\ Len(resp) = 1
               /\ resp[1][4] = dispatched'[1].seq_id
               /\ resp[1][4] = scn.seq
               /\ Len(w) <= 2
               /\ Len(w) = 2 =>
                      /\ resp[1][3] = EVT_ACK
                      /\ \E e \in {w[1], w[2]} : e[3] = EVT_PAGE_CHANGED
                      /\ dispatched'[1].command = CMD_SHOW_PAGE
                      /\ dispatched'[1].payload_len >= 1
                      /\ dispatched'[1].payload[1] < s_page_count]_vars

\* C30 witness: a SET_VALUE for a label, carrying three payload bytes, and
\* coming after two served requests, was answered by a single NACK with the
\* request's seq.
C30_Witness ==
    /\ scn.kind = "req"
    /\ binder
    /\ scn.prior = 2
    /\ scn.cmd = CMD_SET_VALUE
    /\ scn.payload = <<1, 0, 5>>
    /\ stream = <<>>
    /\ ndispatch = 3
    /\ Len(tx) = 5
    /\ tx[5] = WireFrame(EVT_NACK, scn.seq, <<>>)

\* The frames the parser has closed (one of the three counters each), plus
\* the one it is in the middle of.
FramesAccounted(p) ==
    p.frames_ok + p.frames_crc_err + p.frames_len_err
        + (IF p.state = PARSE_WAIT_START THEN 0 ELSE 1)

\* C31: no frame is accounted for after initialisation; a dm_parser_feed call
\* changes at most one of frames_ok, frames_crc_err and frames_len_err, and
\* by exactly +1; and the closed frames plus the open one go up by one in
\* exactly the calls that take the parser from WAIT_START to VERSION, so that
\* after any stream they equal the number of such calls.
C31_CounterAccounting ==
    /\ FramesAccounted(s_parser) = 0
    /\ [][/\ \E d \in {<<s_parser'.frames_ok - s_parser.frames_ok,
                         s_parser'.frames_crc_err - s_parser.frames_crc_err,
                         s_parser'.frames_len_err - s_parser.frames_len_err>>} :
                 d \in {<<0, 0, 0>>, <<1, 0, 0>>, <<0, 1, 0>>, <<0, 0, 1>>}
          /\ FramesAccounted(s_parser') - FramesAccounted(s_parser) =
                 IF /\ s_parser.state = PARSE_WAIT_START
                    /\ s_parser'.state = PARSE_VERSION
                 THEN 1 ELSE 0]_vars

\* C31 witness: one frame was delivered, one was dropped for its length, and
\* a third has just been started.
C31_Witness ==
    /\ scn.kind = "any"
    /\ s_parser.frames_ok = 1
    /\ s_parser.frames_len_err = 1
    /\ s_parser.frames_crc_err = 0
    /\ s_parser.state = PARSE_VERSION

\* C32: with the binder installed, a SHOW_PAGE request whose page id is not
\* below the number of pages is answered with exactly one frame, an EVT_NACK
\* with the request's seq; no EVT_PAGE_CHANGED is written, the current page
\* and the rest of the UI state stay as they were, the event counter stays as
\* it was, and a button event sent next carries the seq_id it would have
\* carried had it been sent instead of the request.
C32_FailedShowPage ==
    [][(/\ stream # <<>>
        /\ stream' = <<>>
        /\ binder
        /\ scn.cmd = CMD_SHOW_PAGE
        /\ Len(scn.payload) >= 1
        /\ scn.payload[1] >= s_page_count) =>
           /\ Served
           /\ Written = <<WireFrame(EVT_NACK, scn.seq, <<>>)>>
           /\ ui'.s_current_page = ui.s_current_page
           /\ ui' = ui
           /\ s_seq_counter' = s_seq_counter
           /\ \E before \in {dm_packet_send_button_pressed(
                                 [tx |-> tx, seq |-> s_seq_counter, ui |-> ui], 2)} :
              \E after \in {dm_packet_send_button_pressed(
                                [tx |-> tx', seq |-> s_seq_counter', ui |-> ui'], 2)} :
                  /\ Len(after.tx) = Len(tx') + 1
                  /\ after.tx[Len(after.tx)] = before.tx[Len(before.tx)]
                  /\ after.tx[Len(after.tx)][4] = s_seq_counter]_vars

\* C32 witness: after two page changes, SHOW_PAGE(2), one past the last page,
\* was refused: the output ends with its NACK, page 0 is still shown and the
\* event counter is still 2.
C32_Witness ==
    /\ scn.kind = "req"
    /\ binder
    /\ scn.prior = 2
    /\ scn.cmd = CMD_SHOW_PAGE
    /\ scn.payload = <<2>>
    /\ stream = <<>>
    /\ Len(tx) = 5
    /\ tx[5] = WireFrame(EVT_NACK, scn.seq, <<>>)
    /\ ui.s_current_page = 0
    /\ s_seq_counter = 2

(***************************************************************************)
(* Specification SpecVer: one frame with any version byte                   *)
(***************************************************************************)

\* A frame as a host of protocol version v builds it: the layout of
\* dm_packet_send with v in the version byte and the CRC computed over it.
VersionedFrame(v, cmd, seq, payload) ==
    <<DM_START_BYTE, v, cmd, seq, Len(payload)>> \o payload \o
    <<crc16_ccitt(<<v, cmd, seq, Len(payload)>> \o payload) \div 256,
      crc16_ccitt(<<v, cmd, seq, Len(payload)>> \o payload) % 256>>

InitVer ==
    /\ dm_init
    /\ NoCalls
    /\ \E v \in Byte, c \in {CMD_PING, CMD_GET_VERSION, CMD_SHOW_PAGE, 254},
          pl \in {<<>>, <<1>>} :
           /\ scn = [kind |-> "ver", version |-> v, cmd |-> c, seq |-> 123,
                     payload |-> pl]
           /\ stream = VersionedFrame(v, c, 123, pl)

SpecVer == InitVer /\ [][NextStream]_vars

\* C33: a frame whose version byte is any value 0..255 and whose CRC is right
\* over that byte is counted in frames_ok and in no error counter, and is
\* handed to the dispatcher with that version byte, by its last byte and not
\* before; the device's answer is the one a frame of the current version
\* gets (PING: ACK; GET_VERSION: ACK with the version triple; SHOW_PAGE(1):
\* ACK and EVT_PAGE_CHANGED(1); SHOW_PAGE without payload and command 0xFE:
\* NACK) and every frame of it carries DM_PROTOCOL_VERSION.
C33_VersionNotValidated ==
    scn.kind = "ver" =>
        /\ stream # <<>> => (ndispatch = 0 /\ tx = <<>>)
        /\ stream = <<>> =>
               /\ s_parser.frames_ok = 1
               /\ s_parser.frames_crc_err = 0
               /\ s_parser.frames_len_err = 0
               /\ ndispatch = 1
               /\ Len(dispatched) = 1
               /\ dispatched[1].version = scn.version
               /\ dispatched[1].command = scn.cmd
               /\ dispatched[1].seq_id = scn.seq
               /\ dispatched[1].payload_len = Len(scn.payload)
               /\ \A i \in 1..Len(tx) : tx[i][2] = DM_PROTOCOL_VERSION
               /\ tx = CASE scn.cmd = CMD_PING ->
                                <<WireFrame(EVT_ACK, scn.seq, <<>>)>>
                         [] scn.cmd = CMD_GET_VERSION ->
                                <<WireFrame(EVT_ACK, scn.seq,
                                            <<DM_PROTOCOL_VERSION, 0, 0>>)>>
                         [] scn.cmd = CMD_SHOW_PAGE /\ scn.payload # <<>> ->
                                <<WireFrame(EVT_ACK, scn.seq, <<>>),
                                  WireFrame(EVT_PAGE_CHANGED, 0, scn.payload)>>
                         [] OTHER ->
                                <<WireFrame(EVT_NACK, scn.seq, <<>>)>>

\* C33 witness: a GET_VERSION frame with version byte 0xAA was delivered and
\* acknowledged with version 1.0.0 in a frame of version 1.
C33_Witness ==
    /\ scn.kind = "ver"
    /\ scn.version = DM_START_BYTE
    /\ scn.cmd = CMD_GET_VERSION
    /\ stream = <<>>
    /\ s_parser.frames_ok = 1
    /\ dispatched[1].version = DM_START_BYTE
    /\ tx = <<WireFrame(EVT_ACK, 123, <<DM_PROTOCOL_VERSION, 0, 0>>)>>

(***************************************************************************)
(* Specification SpecPlat: event calls with and without a usable platform   *)
(***************************************************************************)

\* After boot an application calls the four event senders, each call with a
\* platform argument of its own: usable, or NULL / without write_bytes.
InitPlat ==
    /\ s_parser = dm_parser_init
    /\ s_seq_counter = 0
    /\ ui = ui_pages_init
    /\ tx = <<>>
    /\ plat_ok \in BOOLEAN
    /\ binder = TRUE
    /\ lastbyte = -1
    /\ rx = <<>>
    /\ dispatched = <<>>
    /\ ndispatch = 0
    /\ wr = -1
    /\ nfed = 0
    /\ stream = <<>>
    /\ scn = [kind |-> "plat"]
    /\ NoCalls

NextPlat == AppButton \/ AppSlider \/ AppPage \/ AppTouch

SpecPlat == InitPlat /\ [][NextPlat]_vars

\* C34: the event counter and the transmission stay in step: a call of an
\* event sender that transmits nothing leaves s_seq_counter unchanged, and a
\* call that transmits sends one frame whose seq_id is the number of events
\* transmitted since boot (modulo 256), so the host sees ids without gaps.
C34_CounterInStep ==
    [][(call'.nth = call.nth + 1) =>
           /\ Written = <<>> => s_seq_counter' = s_seq_counter
           /\ Written # <<>> =>
                  /\ Len(Written) = 1
                  /\ Written[1][4] = Len(tx) % 256]_vars

\* C34, as the code behaves: every call of an event sender advances
\* s_seq_counter by one modulo 256, whether or not it transmits; with a usable
\* platform it transmits one frame carrying the counter's value before the
\* call, without one it transmits nothing.
C34_CounterAdvancesAlways ==
    [][(call'.nth = call.nth + 1) =>
           /\ s_seq_counter' = (s_seq_counter + 1) % 256
           /\ plat_ok => (Len(Written) = 1 /\ Written[1][4] = s_seq_counter)
           /\ ~plat_ok => Written = <<>>]_vars

\* C34 witness: two calls were made, the first without a usable platform; the
\* only event the host has received carries seq_id 1.
C34_Witness ==
    /\ scn.kind = "plat"
    /\ call.nth = 2
    /\ s_seq_counter = 2
    /\ Len(tx) = 1
    /\ tx[1][3] = EVT_BUTTON_PRESSED
    /\ tx[1][4] = 1

(***************************************************************************)
(* Specification SpecStale: a short frame after a longer or rejected one    *)
(***************************************************************************)

\* The host sends nothing, or a frame that fills the payload buffer (valid,
\* or rejected for its CRC), and then a request of one of the five UI
\* commands or PING whose payload is shorter than the buffer.  parser_reset
\* does not clear frame.payload, so the bytes of the first frame are still in
\* the buffer when the second frame is dispatched.
InitStale ==
    /\ dm_init
    /\ NoCalls
    /\ \E first \in {"none", "valid", "badcrc"},
          fp \in {[i \in 1..DM_MAX_PAYLOAD |-> 1],
                  [i \in 1..DM_MAX_PAYLOAD |-> IF i = 1 THEN 4 ELSE 77]},
          c \in {CMD_PING, CMD_SHOW_PAGE, CMD_SET_TEXT, CMD_SET_VALUE,
                 CMD_SET_VISIBLE, CMD_SET_ENABLED},
          pl \in SeqUpTo({0, 1, 4}, 2) :
       \E f1 \in {Encode(CMD_SET_VALUE, 16, fp)} :
           /\ scn = [kind |-> "stale", first |-> first, fp |-> fp, cmd |-> c,
                     seq |-> 123, payload |-> pl]
           /\ stream = (CASE first = "none" -> <<>>
                          [] first = "valid" -> f1
                          [] OTHER -> [f1 EXCEPT ![Len(f1)] = (@ + 1) % 256])
                       \o Encode(c, 123, pl)

SpecStale == InitStale /\ [][NextStream]_vars

\* The frame with every payload byte at an index >= payload_len set to fill.
CleanFrame(frame, fill) ==
    [frame EXCEPT !.payload = [i \in 1..DM_MAX_PAYLOAD |->
                                  IF i <= frame.payload_len THEN @[i] ELSE fill]]

\* C35: when a frame is delivered, the dispatcher passes the length byte of
\* that frame as payload_len, and what the handler transmits and does to the
\* UI and to the event counter is what it would do if every byte of the
\* payload buffer at an index >= payload_len were 0, or were 255: bytes left
\* in the buffer by an earlier frame have no influence.
C35_OnlyCurrentPayload ==
    [][(ndispatch' = ndispatch + 1) =>
           /\ Len(dispatched') = 1
           /\ dispatched'[1].payload_len = rx[4]
           /\ dispatched'[1].payload_len <= DM_MAX_PAYLOAD
           /\ \A fill \in {0, 255} :
                  dm_protocol_dispatch(Dev, CleanFrame(dispatched'[1], fill))
                      = [tx |-> tx', seq |-> s_seq_counter', ui |-> ui']]_vars

\* C35 witness: after a valid SET_VALUE frame with payload <<1, 1, ...>> a
\* SHOW_PAGE frame without payload was delivered; the buffer still holds the
\* 1 at index 0, and the request was rejected with the home page still shown.
C35_Witness ==
    /\ scn.kind = "stale"
    /\ scn.first = "valid"
    /\ scn.cmd = CMD_SHOW_PAGE
    /\ scn.payload = <<>>
    /\ stream = <<>>
    /\ ndispatch = 2
    /\ dispatched[1].payload_len = 0
    /\ dispatched[1].payload[1] = 1
    /\ tx[Len(tx)] = WireFrame(EVT_NACK, 123, <<>>)
    /\ ui.s_current_page = 0

====
